---- MODULE Spec2Model ----
(***************************************************************************)
(* A model of the offline-first synchronisation engine of timeflow: the    *)
(* Dexie entity store and its CRUD helpers (lib/db.ts), the outbox, and    *)
(* syncPush / syncPull / migrateLocalToCloud with the entity mapper        *)
(* (lib/sync.ts).                                                          *)
(*                                                                         *)
(* JavaScript values are encoded as integers: UNDEF and NULL are the two   *)
(* negative values, 0 is the number 0 or the empty string, and positive    *)
(* numbers are timestamps (epoch ms), user ids, entity ids and non-empty   *)
(* strings.  An ISO-8601 timestamp string of a remote row is the integer   *)
(* ms * SubMs + f, where f < SubMs is the part below one millisecond.      *)
(***************************************************************************)
EXTENDS Integers, Sequences, FiniteSets, TLC

VARIABLES
    now,        \* Date.now() of this device, in ms
    curUser,    \* the authenticated owner (getCurrentUser), or NULL
    online,     \* navigator.onLine / the remote is reachable
    db,         \* the four entity tables: db.timeslots, db.tags, db.domains, db.dailyLogs
    outbox,     \* db.outbox, in primary-key (creation) order
    syncState,  \* db.syncState: at most the one row 'sync_cursor'
    conflicts,  \* db.conflicts, in insertion order
    remote,     \* the remote tables: remote[kind] maps <<id, user_id>> to a row
    push,       \* the running syncPush calls
    pull,       \* the running syncPull call
    mig,        \* the running migrateLocalToCloud call of the auth listener
    loop,       \* startSyncLoop: its timer, its listener, the running cycles (runSync)
    sweep,      \* the running cleanupOldDeletedRecords call of the home page
    lastCall,   \* history: the last helper call that returned, and how
    hist,       \* history: failed pushes per event; no helper call since a migration;
                \* the running pull skipped a row
    mapper      \* the entity mapper's input and outputs (mapper specification)

ghost == <<lastCall, hist, mapper>>
vars == <<now, curUser, online, db, outbox, syncState, conflicts, remote, push, pull, mig,
          loop, sweep, lastCall, hist, mapper>>

----------------------------------------------------------------------------
(* Bounds of the model *)

MaxTime == 2
MaxOutbox == 6
MaxConflicts == 1
SubMs == 2
NumOwners == 1
NumPushRuns == 2
MaxMigrations == 2
NumSlots == 1
NumNotes == 1
NumTags == 1
PushMaxOutbox == 2
OverlapMaxOutbox == 1
PullMaxOutbox == 1
PullMaxRetry == 1
FixedNetMaxOutbox == 2
MigrateMaxOutbox == 2
ResendMaxOutbox == 2
ResendMaxRetry == 1
NumAccounts == 2
CrudMaxOutbox == 4
NumCascadeSlots == 2
NumNames == 3
NumNamed == 2
NamesMaxOutbox == 3
MaxCycles == 2
LoopMaxOutbox == 1
CycleOwnerMaxOutbox == 1
UnsupportedMaxOutbox == 2
AccountsMaxOutbox == 1
CursorMaxOutbox == 1
ReloadMaxOutbox == 2
MaxReloads == 1
DrainOverlap == 3
SharedMaxOutbox == 3
FaultSlots == 2
SweepMaxOutbox == 2

(* Program constants *)

SYNC_BATCH_SIZE == 50
MAX_RETRY_COUNT == 5

\* more events than one batch holds
DrainEvents == SYNC_BATCH_SIZE + 1
\* 7 * 24 * 60 * 60 * 1000 and 30 * 24 * 60 * 60 * 1000 ms: where the retention
\* sweep runs the clock counts days
SEVEN_DAYS == 7
THIRTY_DAYS == 30

----------------------------------------------------------------------------
(* JavaScript values *)

UNDEF == 0 - 1
NULL == 0 - 2
Falsy(v) == v \in {UNDEF, NULL, 0}
Truthy(v) == ~Falsy(v)
\* a || b
OrElse(a, b) == IF Truthy(a) THEN a ELSE b
\* r.f, undefined when the object has no such property
Get(r, f) == IF f \in DOMAIN r THEN r[f] ELSE UNDEF
\* { ...a, ...b }
Spread(a, b) == [f \in DOMAIN a \cup DOMAIN b |-> IF f \in DOMAIN b THEN b[f] ELSE a[f]]
\* two objects with the same value in every property (a missing one is undefined)
SameFields(a, b) == \A f \in DOMAIN a \cup DOMAIN b : Get(a, f) = Get(b, f)

\* new Date(ms).toISOString()
toISOString(ms) == ms * SubMs
\* new Date(iso).getTime()
getTime(iso) == iso \div SubMs

Kinds == <<"timeslots", "tags", "domains", "dailyLogs">>
KindSet == {Kinds[i] : i \in 1..4}

----------------------------------------------------------------------------
(* Entity mapper *)

mapLocalToServer(entity, local) ==
    LET base == [id |-> local.id,
                 user_id |-> local.userId,
                 client_id |-> local.clientId,
                 created_at |-> toISOString(local.createdAt),
                 updated_at |-> toISOString(local.updatedAt),
                 deleted_at |-> IF Truthy(Get(local, "deletedAt"))
                                THEN toISOString(local.deletedAt) ELSE NULL]
    IN  CASE entity = "timeslots" ->
               Spread(base, [start_time |-> toISOString(local.start),
                             end_time |-> toISOString(local.end),
                             note |-> OrElse(Get(local, "note"), NULL),
                             tag_ids |-> local.tagIds,
                             energy |-> OrElse(Get(local, "energy"), NULL),
                             mood |-> OrElse(Get(local, "mood"), NULL),
                             version |-> local.version])
          [] entity = "tags" ->
               Spread(base, [domain_id |-> local.domainId,
                             name |-> local.name,
                             color |-> OrElse(Get(local, "color"), NULL)])
          [] entity = "domains" ->
               Spread(base, [name |-> local.name,
                             color |-> local.color,
                             color_end |-> OrElse(Get(local, "colorEnd"), NULL),
                             order |-> local.order])
          [] entity = "dailyLogs" ->
               Spread(base, [date |-> local.date,
                             markdown |-> local.markdown])

mapServerToLocal(entity, server) ==
    LET base == [id |-> server.id,
                 userId |-> server.user_id,
                 clientId |-> server.client_id,
                 createdAt |-> getTime(server.created_at),
                 updatedAt |-> getTime(server.updated_at),
                 deletedAt |-> IF Truthy(server.deleted_at)
                               THEN getTime(server.deleted_at) ELSE UNDEF]
    IN  CASE entity = "timeslots" ->
               Spread(base, [start |-> getTime(server.start_time),
                             end |-> getTime(server.end_time),
                             note |-> OrElse(server.note, UNDEF),
                             tagIds |-> server.tag_ids,
                             energy |-> OrElse(server.energy, UNDEF),
                             mood |-> OrElse(server.mood, UNDEF),
                             version |-> server.version])
          [] entity = "tags" ->
               Spread(base, [domainId |-> server.domain_id,
                             name |-> server.name,
                             color |-> OrElse(server.color, UNDEF)])
          [] entity = "domains" ->
               Spread(base, [name |-> server.name,
                             color |-> server.color,
                             colorEnd |-> OrElse(server.color_end, UNDEF),
                             order |-> server.order])
          [] entity = "dailyLogs" ->
               Spread(base, [date |-> server.date,
                             markdown |-> server.markdown])

----------------------------------------------------------------------------
(* Entity store and outbox recorder (lib/db.ts) *)

\* entity ids carry their kind, as the prefixes slot_, tag_, domain_, log_ do
SlotId(n) == 10 + n
TagId(n) == 20 + n
DomainId(n) == 30 + n
LogId(date) == 40 + date

ClientId == 1
OtherClientId == 2

\* window.__domainflow_user_id || undefined: nothing writes this global (the
\* store's setUserId writes window.__timeflow_user_id), so the read is undefined
\* whoever is signed in
getCurrentUserId == UNDEF
\* getCurrentUser() of supabaseClient: the authenticated user, or null
getCurrentUser == curUser

\* table.get(id) is defined
Has(tbl, id) == id \in DOMAIN tbl
\* table.put(row)
Put(tbl, row) == [i \in DOMAIN tbl \cup {row.id} |-> IF i = row.id THEN row ELSE tbl[i]]
\* table.delete(id)
Del(tbl, id) == [i \in DOMAIN tbl \ {id} |-> tbl[i]]
\* the keys of a table in primary-key order, as toArray() walks them
RECURSIVE KeySeq(_)
KeySeq(ks) ==
    IF ks = {} THEN <<>>
    ELSE LET k == CHOOSE x \in ks : \A y \in ks : x <= y
         IN  <<k>> \o KeySeq(ks \ {k})
\* array.filter(x => x !== v)
RECURSIVE Without(_, _)
Without(sq, v) ==
    IF sq = <<>> THEN <<>>
    ELSE IF Head(sq) = v THEN Without(Tail(sq), v)
         ELSE <<Head(sq)>> \o Without(Tail(sq), v)
\* array.includes(v)
Includes(sq, v) == \E i \in 1..Len(sq) : sq[i] = v

\* Outbox keys: 'outbox_<now>_<random>' for the helpers' events and
\* 'outbox_migrate_<now>_<random>' for the migration's, which sort after all
\* the helpers' keys.  An id is its rank in that order; MigrateBase separates
\* the two families.
MigrateBase == 100
IsMigrateId(id) == id > MigrateBase
NextEventId(o, base) ==
    base + 1 + Cardinality({k \in 1..Len(o) : o[k].id > base /\ o[k].id <= base + MigrateBase})

\* db.outbox.add(event): the table stays in primary-key order
RECURSIVE OutboxAdd(_, _)
OutboxAdd(o, event) ==
    IF o = <<>> THEN <<event>>
    ELSE IF Head(o).id > event.id THEN <<event>> \o o
         ELSE <<Head(o)>> \o OutboxAdd(Tail(o), event)

\* The store a helper works on: the entity tables and the outbox; ok = FALSE
\* once the helper has thrown; nested counts the nested helper calls made.
Store(d, o) == [db |-> d, outbox |-> o, ok |-> TRUE, nested |-> 0]
Throw(S) == [S EXCEPT !.ok = FALSE]

\* a recorder that loses the event: what outbox completeness must exclude
loseEvent(S, entity, operation, entityId, payload) == S

addToOutbox(S, entity, operation, entityId, payload) ==
    LET event == [id |-> NextEventId(S.outbox, 0),
                  entity |-> entity,
                  operation |-> operation,
                  entityId |-> entityId,
                  payload |-> payload,
                  idempotencyKey |-> <<entity, operation, entityId, now>>,
                  userId |-> getCurrentUserId,
                  clientId |-> ClientId,
                  status |-> "pending",
                  retryCount |-> 0,
                  lastError |-> UNDEF,
                  createdAt |-> now,
                  syncedAt |-> UNDEF]
    IN  [S EXCEPT !.outbox = OutboxAdd(S.outbox, event)]

\* the write of one entity table followed by the outbox append
PutAndRecord(S, entity, operation, row) ==
    addToOutbox([S EXCEPT !.db[entity] = Put(S.db[entity], row)],
                entity, operation, row.id, row)

createTimeSlot(S, slot, newId) ==
    LET newSlot == Spread(slot, [id |-> newId,
                                 version |-> 1,
                                 createdAt |-> now,
                                 updatedAt |-> now,
                                 userId |-> getCurrentUserId,
                                 clientId |-> ClientId,
                                 deletedAt |-> UNDEF])
    IN  IF Has(S.db.timeslots, newId) THEN Throw(S)
        ELSE PutAndRecord(S, "timeslots", "create", newSlot)

\* an update that creates the row when there is none: what the not-found
\* error must exclude
putTimeSlot(S, id, updates) ==
    LET existing == IF Has(S.db.timeslots, id) THEN S.db.timeslots[id]
                    ELSE [id |-> id, version |-> 0]
    IN  PutAndRecord(S, "timeslots", "update",
                     Spread(Spread(existing, updates),
                            [version |-> existing.version + 1, updatedAt |-> now]))

updateTimeSlot(S, id, updates) ==
    IF ~Has(S.db.timeslots, id) THEN Throw(S)
    ELSE LET existing == S.db.timeslots[id]
             updated == Spread(Spread(existing, updates),
                               [version |-> existing.version + 1, updatedAt |-> now])
         IN  PutAndRecord(S, "timeslots", "update", updated)

deleteTimeSlot(S, id) ==
    IF ~Has(S.db.timeslots, id) THEN S
    ELSE LET existing == S.db.timeslots[id]
             deleted == Spread(existing, [deletedAt |-> now,
                                          updatedAt |-> now,
                                          version |-> existing.version + 1])
         IN  PutAndRecord(S, "timeslots", "delete", deleted)

\* a comparison of names that tells the spellings apart: what the duplicate
\* check must not be
keepCase(name) == name

\* String.toLowerCase on names: name 1 is a capitalised spelling of name 2
toLowerCase(name) == IF name = 1 THEN 2 ELSE name

createTag(S, tag, newId) ==
    LET duplicate == \E i \in DOMAIN S.db.tags :
                        /\ S.db.tags[i].domainId = tag.domainId
                        /\ Falsy(Get(S.db.tags[i], "deletedAt"))
                        /\ toLowerCase(S.db.tags[i].name) = toLowerCase(tag.name)
        newTag == Spread(tag, [id |-> newId,
                               createdAt |-> now,
                               updatedAt |-> now,
                               userId |-> getCurrentUserId,
                               clientId |-> ClientId,
                               deletedAt |-> UNDEF])
    IN  IF duplicate \/ Has(S.db.tags, newId) THEN Throw(S)
        ELSE PutAndRecord(S, "tags", "create", newTag)

updateTag(S, id, updates) ==
    IF ~Has(S.db.tags, id) THEN Throw(S)
    ELSE PutAndRecord(S, "tags", "update",
                      Spread(Spread(S.db.tags[id], updates), [updatedAt |-> now]))

\* the loop of deleteTag over slotsWithTag, a snapshot taken before the loop
RECURSIVE StripTag(_, _, _)
StripTag(S, slots, id) ==
    IF slots = <<>> \/ ~S.ok THEN S
    ELSE LET slot == Head(slots)
             remainingTags == Without(slot.tagIds, id)
             S1 == IF remainingTags = <<>>
                   THEN deleteTimeSlot(S, slot.id)
                   ELSE updateTimeSlot(S, slot.id, [tagIds |-> remainingTags])
         IN  StripTag([S1 EXCEPT !.nested = @ + 1], Tail(slots), id)

\* a delete that soft-deletes the tag and leaves the time slots alone: what the
\* cascade must exclude
deleteTagOnly(S, id) ==
    IF ~Has(S.db.tags, id) THEN S
    ELSE PutAndRecord(S, "tags", "delete",
                      Spread(S.db.tags[id], [deletedAt |-> now, updatedAt |-> now]))

deleteTag(S, id) ==
    IF ~Has(S.db.tags, id) THEN S
    ELSE LET existing == S.db.tags[id]
             allSlots == S.db.timeslots
             withTag(slot) == Falsy(Get(slot, "deletedAt")) /\ Includes(slot.tagIds, id)
             keys == KeySeq({i \in DOMAIN allSlots : withTag(allSlots[i])})
             slotsWithTag == [k \in 1..Len(keys) |-> allSlots[keys[k]]]
             S1 == StripTag(S, slotsWithTag, id)
             deleted == Spread(existing, [deletedAt |-> now, updatedAt |-> now])
         IN  IF ~S1.ok THEN S1 ELSE PutAndRecord(S1, "tags", "delete", deleted)

archiveTag(S, id) ==
    IF ~Has(S.db.tags, id) THEN S
    ELSE PutAndRecord(S, "tags", "update",
                      Spread(S.db.tags[id], [archivedAt |-> now, updatedAt |-> now]))

unarchiveTag(S, id) ==
    IF ~Has(S.db.tags, id) THEN S
    ELSE PutAndRecord(S, "tags", "update",
                      Spread(S.db.tags[id], [archivedAt |-> UNDEF, updatedAt |-> now]))

createDomain(S, domain, newId) ==
    LET duplicate == \E i \in DOMAIN S.db.domains :
                        /\ Falsy(Get(S.db.domains[i], "deletedAt"))
                        /\ toLowerCase(S.db.domains[i].name) = toLowerCase(domain.name)
        newDomain == Spread(domain, [id |-> newId,
                                     createdAt |-> now,
                                     updatedAt |-> now,
                                     userId |-> getCurrentUserId,
                                     clientId |-> ClientId,
                                     deletedAt |-> UNDEF])
    IN  IF duplicate \/ Has(S.db.domains, newId) THEN Throw(S)
        ELSE PutAndRecord(S, "domains", "create", newDomain)

updateDomain(S, id, updates) ==
    IF ~Has(S.db.domains, id) THEN Throw(S)
    ELSE PutAndRecord(S, "domains", "update",
                      Spread(Spread(S.db.domains[id], updates), [updatedAt |-> now]))

\* a delete that does not look at the domain's tags: what the guard must exclude
deleteDomainUnguarded(S, id) ==
    IF ~Has(S.db.domains, id) THEN S
    ELSE PutAndRecord(S, "domains", "delete",
                      Spread(S.db.domains[id], [deletedAt |-> now, updatedAt |-> now]))

deleteDomain(S, id) ==
    IF ~Has(S.db.domains, id) THEN S
    ELSE LET existing == S.db.domains[id]
             activeTags == {i \in DOMAIN S.db.tags :
                               /\ S.db.tags[i].domainId = id
                               /\ Falsy(Get(S.db.tags[i], "deletedAt"))}
             deleted == Spread(existing, [deletedAt |-> now, updatedAt |-> now])
         IN  IF activeTags # {} THEN Throw(S)
             ELSE PutAndRecord(S, "domains", "delete", deleted)

\* the loops of archiveDomain / unarchiveDomain over the domain's tags
RECURSIVE ArchiveTags(_, _, _)
ArchiveTags(S, tags, archive) ==
    IF tags = <<>> THEN S
    ELSE LET tag == Head(tags)
             todo == /\ Falsy(Get(tag, "deletedAt"))
                     /\ (archive <=> Falsy(Get(tag, "archivedAt")))
             S1 == IF ~todo THEN S
                   ELSE LET S2 == IF archive THEN archiveTag(S, tag.id)
                                  ELSE unarchiveTag(S, tag.id)
                        IN  [S2 EXCEPT !.nested = @ + 1]
         IN  ArchiveTags(S1, Tail(tags), archive)

TagsOfDomain(S, id) ==
    LET keys == KeySeq({i \in DOMAIN S.db.tags : S.db.tags[i].domainId = id})
    IN  [k \in 1..Len(keys) |-> S.db.tags[keys[k]]]

archiveDomain(S, id) ==
    IF ~Has(S.db.domains, id) THEN S
    ELSE LET archived == Spread(S.db.domains[id], [archivedAt |-> now, updatedAt |-> now])
             S1 == PutAndRecord(S, "domains", "update", archived)
         IN  ArchiveTags(S1, TagsOfDomain(S1, id), TRUE)

unarchiveDomain(S, id) ==
    IF ~Has(S.db.domains, id) THEN S
    ELSE LET unarchived == Spread(S.db.domains[id],
                                  [archivedAt |-> UNDEF, updatedAt |-> now])
             S1 == PutAndRecord(S, "domains", "update", unarchived)
         IN  ArchiveTags(S1, TagsOfDomain(S1, id), FALSE)

upsertDailyLog(S, date, markdown) ==
    LET found == {i \in DOMAIN S.db.dailyLogs : S.db.dailyLogs[i].date = date}
        live == {i \in found : Falsy(Get(S.db.dailyLogs[i], "deletedAt"))}
    IN  IF found # {} /\ (CHOOSE i \in found : \A j \in found : i <= j) \in live
        THEN LET existing == S.db.dailyLogs[CHOOSE i \in found : \A j \in found : i <= j]
             IN  PutAndRecord(S, "dailyLogs", "update",
                              Spread(existing, [markdown |-> markdown, updatedAt |-> now]))
        ELSE LET newLog == [id |-> LogId(date),
                            date |-> date,
                            markdown |-> markdown,
                            createdAt |-> now,
                            updatedAt |-> now,
                            userId |-> getCurrentUserId,
                            clientId |-> ClientId,
                            deletedAt |-> UNDEF]
             IN  IF Has(S.db.dailyLogs, newLog.id) THEN Throw(S)
                 ELSE PutAndRecord(S, "dailyLogs", "create", newLog)

\* The list and query helpers, each as the set of rows it returns

\* a tag list that does not look at deletedAt: what soft-delete visibility
\* must exclude
getEveryTag(d) == {d.tags[i] : i \in {x \in DOMAIN d.tags : Falsy(Get(d.tags[x], "archivedAt"))}}

getTimeSlotsByRange(d, start, end) ==
    LET slots == {i \in DOMAIN d.timeslots :
                     \/ start <= d.timeslots[i].start /\ d.timeslots[i].start <= end
                     \/ start <= d.timeslots[i].end /\ d.timeslots[i].end <= end}
    IN  {d.timeslots[i] : i \in {x \in slots : Falsy(Get(d.timeslots[x], "deletedAt"))}}

getAllTags(d) ==
    {d.tags[i] : i \in {x \in DOMAIN d.tags : /\ Falsy(Get(d.tags[x], "deletedAt"))
                                              /\ Falsy(Get(d.tags[x], "archivedAt"))}}

getTagsByDomain(d, domainId) ==
    LET tags == {i \in DOMAIN d.tags : Get(d.tags[i], "domainId") = domainId}
    IN  {d.tags[i] : i \in {x \in tags : /\ Falsy(Get(d.tags[x], "deletedAt"))
                                         /\ Falsy(Get(d.tags[x], "archivedAt"))}}

getArchivedTags(d) ==
    {d.tags[i] : i \in {x \in DOMAIN d.tags : /\ Falsy(Get(d.tags[x], "deletedAt"))
                                              /\ Truthy(Get(d.tags[x], "archivedAt"))}}

getAllDomains(d) ==
    {d.domains[i] : i \in {x \in DOMAIN d.domains :
                              /\ Falsy(Get(d.domains[x], "deletedAt"))
                              /\ Falsy(Get(d.domains[x], "archivedAt"))}}

getArchivedDomains(d) ==
    {d.domains[i] : i \in {x \in DOMAIN d.domains :
                              /\ Falsy(Get(d.domains[x], "deletedAt"))
                              /\ Truthy(Get(d.domains[x], "archivedAt"))}}

\* .where('date').equals(date).first(), returned when it is not soft-deleted
getDailyLog(d, date) ==
    LET found == {i \in DOMAIN d.dailyLogs : d.dailyLogs[i].date = date}
        first == CHOOSE i \in found : \A j \in found : i <= j
    IN  IF found # {} /\ Falsy(Get(d.dailyLogs[first], "deletedAt"))
        THEN {d.dailyLogs[first]} ELSE {}

getAllDailyLogs(d) ==
    {d.dailyLogs[i] : i \in {x \in DOMAIN d.dailyLogs :
                                Falsy(Get(d.dailyLogs[x], "deletedAt"))}}

----------------------------------------------------------------------------
(* cleanupOldDeletedRecords, called by the home page when it mounts: each
   table is read, then its old soft-deleted rows are deleted one await at a
   time; the synced events older than 30 days go in one call *)

IdleSweep == [pc |-> "idle", k |-> 0, ids |-> <<>>, sevenDaysAgo |-> 0]

\* .filter(x => !!x.deletedAt && x.deletedAt < sevenDaysAgo).toArray()
OldDeleted(tbl, sevenDaysAgo) ==
    KeySeq({i \in DOMAIN tbl : /\ Truthy(Get(tbl[i], "deletedAt"))
                               /\ tbl[i].deletedAt < sevenDaysAgo})

\* the events db.outbox.filter(...).delete() leaves
Purged(event) == event.status = "synced" /\ event.createdAt < now - THIRTY_DAYS
Kept(event) == ~Purged(event)

\* after one table: the next table, or the outbox
NextSweepKind(r) ==
    IF r.k < Len(Kinds) THEN [r EXCEPT !.pc = "scan", !.k = @ + 1, !.ids = <<>>]
    ELSE [r EXCEPT !.pc = "outbox", !.k = 0, !.ids = <<>>]

\* const sevenDaysAgo = Date.now() - 7 * 24 * 60 * 60 * 1000
SweepBegin ==
    /\ sweep.pc = "idle"
    /\ sweep' = [pc |-> "scan", k |-> 1, ids |-> <<>>, sevenDaysAgo |-> now - SEVEN_DAYS]
    /\ UNCHANGED <<now, curUser, online, db, outbox, syncState, conflicts, remote, push,
                   pull, mig, loop, ghost>>

\* the read of one table: the rows to delete
SweepScan ==
    /\ sweep.pc = "scan"
    /\ LET ids == OldDeleted(db[Kinds[sweep.k]], sweep.sevenDaysAgo)
       IN  sweep' = IF ids = <<>> THEN NextSweepKind(sweep)
                    ELSE [sweep EXCEPT !.pc = "delete", !.ids = ids]
    /\ UNCHANGED <<now, curUser, online, db, outbox, syncState, conflicts, remote, push,
                   pull, mig, loop, ghost>>

\* await db.<table>.delete(row.id) for the next row read
SweepDelete ==
    /\ sweep.pc = "delete"
    /\ db' = [db EXCEPT ![Kinds[sweep.k]] = Del(@, Head(sweep.ids))]
    /\ sweep' = IF Tail(sweep.ids) = <<>> THEN NextSweepKind(sweep)
                ELSE [sweep EXCEPT !.ids = Tail(@)]
    /\ UNCHANGED <<now, curUser, online, outbox, syncState, conflicts, remote, push,
                   pull, mig, loop, ghost>>

\* db.outbox.filter(synced and older than 30 days).delete(), and the return
SweepOutbox ==
    /\ sweep.pc = "outbox"
    /\ outbox' = SelectSeq(outbox, Kept)
    /\ sweep' = IdleSweep
    /\ UNCHANGED <<now, curUser, online, db, syncState, conflicts, remote, push,
                   pull, mig, loop, ghost>>

----------------------------------------------------------------------------
(* The remote store (Supabase tables), seen through the client's calls *)

\* an upsert that counts a version up each time it meets the row: a remote on
\* which a repeated send would show
UpsertCounting(tbl, row) ==
    LET key == <<row.id, row.user_id>>
    IN  [k \in DOMAIN tbl \cup {key} |->
           IF k # key THEN tbl[k]
           ELSE IF key \in DOMAIN tbl THEN [row EXCEPT !.version = tbl[key].version + 1]
           ELSE row]

\* .upsert(row, { onConflict: 'id,user_id', ignoreDuplicates: false })
Upsert(tbl, row) ==
    LET key == <<row.id, row.user_id>>
    IN  [k \in DOMAIN tbl \cup {key} |-> IF k = key THEN row ELSE tbl[k]]

\* .update(cols).eq('id', id).eq('user_id', userId)
UpdateWhere(tbl, id, userId, cols) ==
    [k \in DOMAIN tbl |-> IF k = <<id, userId>> THEN Spread(tbl[k], cols) ELSE tbl[k]]

\* the remote tables after pushEventToSupabase(supabase, event, userId) succeeded
pushEventToSupabase(rem, event, userId) ==
    LET localData == Spread(event.payload, [userId |-> userId])
    IN  IF event.operation = "delete"
        THEN [rem EXCEPT ![event.entity] =
                 UpdateWhere(@, event.entityId, userId,
                             [deleted_at |-> toISOString(event.payload.deletedAt),
                              updated_at |-> toISOString(event.payload.updatedAt)])]
        ELSE [rem EXCEPT ![event.entity] =
                 Upsert(@, mapLocalToServer(event.entity, localData))]

----------------------------------------------------------------------------
(* syncPush *)

\* an update that also stamps the event with a later createdAt: what the
\* immutability of the event content must exclude
OutboxRewrite(o, id, changes) ==
    [k \in 1..Len(o) |->
        IF o[k].id = id THEN Spread(o[k], Spread(changes, [createdAt |-> o[k].createdAt + 1]))
        ELSE o[k]]

\* db.outbox.update(id, changes): no row with that key, no change
OutboxUpdate(o, id, changes) ==
    [k \in 1..Len(o) |-> IF o[k].id = id THEN Spread(o[k], changes) ELSE o[k]]

EventById(o, id) == o[CHOOSE k \in 1..Len(o) : o[k].id = id]

\* a selection that takes no failed event again
PendingOnly(event) == event.status = "pending"

\* the filter of the selection query
Selectable(event) ==
    /\ event.status \in {"pending", "failed"}
    /\ event.retryCount < MAX_RETRY_COUNT

\* The ways two index walks (status = 'pending', status = 'failed'), each in
\* primary-key order, can be merged by the OR query: the order of the union
\* is not defined by the query.
RECURSIVE Merges(_, _)
Merges(a, b) ==
    IF a = <<>> THEN {b}
    ELSE IF b = <<>> THEN {a}
    ELSE {<<Head(a)>> \o m : m \in Merges(Tail(a), b)}
         \cup {<<Head(b)>> \o m : m \in Merges(a, Tail(b))}

RECURSIVE SelectSeq2(_, _)
SelectSeq2(sq, st) ==
    IF sq = <<>> THEN <<>>
    ELSE IF Selectable(Head(sq)) /\ Head(sq).status = st
         THEN <<[id |-> Head(sq).id, retryCount |-> Head(sq).retryCount]>>
              \o SelectSeq2(Tail(sq), st)
         ELSE SelectSeq2(Tail(sq), st)

Limit(sq, n) == IF Len(sq) <= n THEN sq ELSE SubSeq(sq, 1, n)

\* the possible values of pendingEvents: snapshots of the selected events
pendingEvents(o) ==
    {Limit(m, SYNC_BATCH_SIZE) :
        m \in Merges(SelectSeq2(o, "pending"), SelectSeq2(o, "failed"))}

IdlePush == [pc |-> "idle", user |-> NULL, batch |-> <<>>, i |-> 0,
             success |-> 0, failed |-> 0]

\* syncPush up to the selection; returns at once without a user or an event
PushEnter(p) ==
    /\ push[p].pc = "idle"
    /\ LET user == getCurrentUser
       IN  \E batch \in pendingEvents(outbox) :
             push' = [push EXCEPT ![p] =
                        IF user = NULL \/ batch = <<>>
                        THEN IdlePush
                        ELSE [pc |-> "mark", user |-> user, batch |-> batch, i |-> 1,
                              success |-> 0, failed |-> 0]]
    /\ UNCHANGED <<now, curUser, online, db, outbox, syncState, conflicts, remote, pull,
                   sweep, ghost>>

\* syncPush called by the sync loop
PushBegin(p) == PushEnter(p) /\ UNCHANGED <<mig, loop, sweep>>

\* db.outbox.update(event.id, { status: 'syncing' })
PushMark(p) ==
    /\ push[p].pc = "mark"
    /\ outbox' = OutboxUpdate(outbox, push[p].batch[push[p].i].id, [status |-> "syncing"])
    /\ push' = [push EXCEPT ![p].pc = "send"]
    /\ UNCHANGED <<now, curUser, online, db, syncState, conflicts, remote, pull,
                   mig, loop, sweep, ghost>>

\* a loop that gives up after the first event: what failure isolation must exclude
PushGiveUp(r) == [r EXCEPT !.pc = "finish"]

PushAdvance(r) ==
    IF r.i < Len(r.batch) THEN [r EXCEPT !.i = @ + 1, !.pc = "mark"]
    ELSE [r EXCEPT !.pc = "finish"]

\* history: one more in the count kept for event id
CountOf(f, id) == IF id \in DOMAIN f THEN f[id] ELSE 0
CountUp(f, id) == [k \in DOMAIN f \cup {id} |-> IF k = id THEN CountOf(f, id) + 1 ELSE f[k]]

\* the changes the catch branch writes for a failed event
FailedChanges(snap) ==
    [status |-> "failed", retryCount |-> snap.retryCount + 1, lastError |-> 1]

\* the remote call reached the remote store; acked: its answer reached the
\* client, which marks the event synced, otherwise the await throws and the
\* catch branch runs
PushSend(p, acked) ==
    /\ push[p].pc = "send"
    /\ online
    /\ LET snap == push[p].batch[push[p].i]
       IN  /\ \E event \in {EventById(outbox, snap.id)} :
                  remote' = pushEventToSupabase(remote, event, push[p].user)
           /\ outbox' = OutboxUpdate(outbox, snap.id,
                                     IF acked THEN [status |-> "synced", syncedAt |-> now]
                                     ELSE FailedChanges(snap))
    /\ push' = [push EXCEPT ![p] =
                  PushAdvance(IF acked THEN [@ EXCEPT !.success = @ + 1]
                              ELSE [@ EXCEPT !.failed = @ + 1])]
    /\ UNCHANGED <<now, curUser, online, db, syncState, conflicts, pull, mig, loop, sweep>>

\* the remote call succeeded: the event is marked synced
PushSynced(p) == PushSend(p, TRUE) /\ UNCHANGED ghost

\* the remote call failed (no network, or the remote refused): the catch branch
PushFailed(p) ==
    /\ push[p].pc = "send"
    /\ LET snap == push[p].batch[push[p].i]
       IN  /\ outbox' = OutboxUpdate(outbox, snap.id, FailedChanges(snap))
           /\ hist' = [hist EXCEPT !.fails = CountUp(@, snap.id)]
    /\ push' = [push EXCEPT ![p] = PushAdvance([@ EXCEPT !.failed = @ + 1])]
    /\ UNCHANGED <<now, curUser, online, db, syncState, conflicts, remote, pull,
                   mig, loop, sweep, lastCall, mapper>>

\* db.syncState.put({ id: 'sync_cursor', lastPushAt, userId }) and the return
PushStateRow(r) == [id |-> "sync_cursor", lastPushAt |-> now, userId |-> r.user]

PushFinish(p) ==
    /\ push[p].pc = "finish"
    /\ syncState' = Put(syncState, PushStateRow(push[p]))
    /\ push' = [push EXCEPT ![p] = [@ EXCEPT !.pc = "idle", !.batch = <<>>, !.i = 0]]
    /\ UNCHANGED <<now, curUser, online, db, outbox, conflicts, remote, pull,
                   mig, loop, sweep, ghost>>

----------------------------------------------------------------------------
(* syncPull *)

\* getTableName / the entities list of syncPull: one remote table per kind
SyncCursorRow == IF Has(syncState, "sync_cursor") THEN syncState["sync_cursor"] ELSE <<>>

\* the rows a pull query returns: .eq('user_id', userId), .gt('updated_at',
\* lastCursor) when a cursor is given, .order('updated_at', ascending)
RECURSIVE OrderByUpdatedAt(_, _)
OrderByUpdatedAt(tbl, keys) ==
    IF keys = {} THEN <<>>
    ELSE LET k == CHOOSE x \in keys : \A y \in keys :
                     \/ tbl[x].updated_at < tbl[y].updated_at
                     \/ tbl[x].updated_at = tbl[y].updated_at /\ x[1] <= y[1]
         IN  <<tbl[k]>> \o OrderByUpdatedAt(tbl, keys \ {k})

QueryRows(tbl, userId, lastCursor) ==
    OrderByUpdatedAt(tbl, {k \in DOMAIN tbl :
                              /\ tbl[k].user_id = userId
                              /\ Truthy(lastCursor) => tbl[k].updated_at > lastCursor})

\* a check that sees the pending events only: what pull precedence must exclude
InFlightPending(o, entityId) ==
    \E k \in 1..Len(o) : o[k].entityId = entityId /\ o[k].status = "pending"

\* an outbox event of this entity id is pending, syncing or failed
InFlight(o, entityId) ==
    \E k \in 1..Len(o) : /\ o[k].entityId = entityId
                         /\ o[k].status \in {"pending", "syncing", "failed"}

IdlePull == [pc |-> "idle", user |-> NULL, cursor |-> UNDEF, k |-> 0, data |-> <<>>,
             i |-> 0, existing |-> <<>>, pulled |-> 0, conflicts |-> 0]

\* a first-sync test that looks only for the row, not for its owner
NoCursorRow(row, userId) == row = <<>>

\* const isFirstSync = !syncState || syncState.userId !== user.id
isFirstSync(row, userId) == row = <<>> \/ Get(row, "userId") # userId

\* syncPull up to the loop over the entity kinds
PullEnter ==
    /\ pull.pc = "idle"
    /\ LET user == getCurrentUser
           row == SyncCursorRow
           lastPullCursor == IF isFirstSync(row, user) THEN UNDEF
                             ELSE Get(row, "lastPullCursor")
       IN  pull' = IF user = NULL
                   THEN IdlePull
                   ELSE [IdlePull EXCEPT !.pc = "query", !.user = user,
                                         !.cursor = lastPullCursor, !.k = 1]
    /\ hist' = [hist EXCEPT !.skipped = FALSE]
    /\ UNCHANGED <<now, curUser, online, db, outbox, syncState, conflicts, remote, push,
                   mig, sweep, lastCall, mapper>>

\* syncPull called outside a loop cycle
PullBegin == PullEnter /\ UNCHANGED loop

\* after one kind: the next kind, or the cursor update
NextKind(r) ==
    IF r.k < Len(Kinds)
    THEN [r EXCEPT !.pc = "query", !.k = @ + 1, !.data = <<>>, !.i = 0, !.existing = <<>>]
    ELSE [r EXCEPT !.pc = "finish", !.data = <<>>, !.i = 0, !.existing = <<>>]

\* a loop over the rows that ends at the first row it leaves: what the
\* isolation of row failures must exclude
LeaveRows(r) == NextKind(r)

\* after one row: the next row, or the next kind
NextRow(r) ==
    IF r.i < Len(r.data)
    THEN [r EXCEPT !.pc = "check", !.i = @ + 1, !.existing = <<>>]
    ELSE NextKind(r)

\* the query of pullEntityFromSupabase answered
PullQuery ==
    /\ pull.pc = "query"
    /\ online
    /\ LET data == QueryRows(remote[Kinds[pull.k]], pull.user, pull.cursor)
       IN  pull' = IF data = <<>> THEN NextKind(pull)
                   ELSE [pull EXCEPT !.pc = "check", !.data = data, !.i = 1]
    /\ UNCHANGED <<now, curUser, online, db, outbox, syncState, conflicts, remote, push,
                   mig, loop, sweep, ghost>>

\* the query failed: pullEntityFromSupabase throws, the catch of syncPull's
\* loop over the kinds logs it and the loop goes on
PullQueryThrows ==
    /\ pull.pc = "query"
    /\ pull' = NextKind(pull)
    /\ UNCHANGED <<now, curUser, online, db, outbox, syncState, conflicts, remote, push,
                   mig, loop, sweep>>

PullQueryFailed == PullQueryThrows /\ UNCHANGED ghost

\* one row: map it, read the local copy, look for an in-flight outbox event
PullCheck ==
    /\ pull.pc = "check"
    /\ LET entity == Kinds[pull.k]
           localEntity == mapServerToLocal(entity, pull.data[pull.i])
           existing == IF Has(db[entity], localEntity.id)
                       THEN <<db[entity][localEntity.id]>> ELSE <<>>
           pendingOutboxEvent == InFlight(outbox, localEntity.id)
       IN  /\ pull' = IF pendingOutboxEvent THEN NextRow(pull)
                       ELSE [pull EXCEPT !.pc = "apply", !.existing = existing]
           /\ hist' = [hist EXCEPT !.skipped = @ \/ pendingOutboxEvent]
    /\ UNCHANGED <<now, curUser, online, db, outbox, syncState, conflicts, remote, push,
                   mig, loop, sweep, lastCall, mapper>>

\* a conflict test that also fires on equal timestamps: what the audit must exclude
IsConflictOrEqual(existing, serverRow) ==
    existing.updatedAt >= getTime(serverRow.updated_at)

\* the conflict test of pullEntityFromSupabase
IsConflict(existing, serverRow) == existing.updatedAt > getTime(serverRow.updated_at)

ConflictRecord(entity, existing, localEntity) ==
    [entity |-> entity, entityId |-> localEntity.id, localVersion |-> existing,
     serverVersion |-> localEntity, conflictedAt |-> now]

\* an apply that keeps a tombstone as a soft-deleted row: what tombstone
\* terminality must exclude
ApplyRowSoftly(tbl, existing, localEntity) == Put(tbl, localEntity)

\* the entity table after the row was applied
ApplyRow(tbl, existing, localEntity) ==
    IF Truthy(localEntity.deletedAt)
    THEN IF existing # <<>> THEN Del(tbl, localEntity.id) ELSE tbl
    ELSE Put(tbl, localEntity)

\* an apply that records the row it writes in the outbox, as a helper would:
\* what a pull that does not echo must exclude
PullApplyEcho ==
    /\ pull.pc = "apply"
    /\ Len(outbox) < MaxOutbox
    /\ LET entity == Kinds[pull.k]
           localEntity == mapServerToLocal(entity, pull.data[pull.i])
       IN  /\ db' = [db EXCEPT ![entity] = ApplyRow(@, pull.existing, localEntity)]
           /\ outbox' = addToOutbox(Store(db, outbox), entity, "update",
                                    localEntity.id, localEntity).outbox
           /\ pull' = NextRow([pull EXCEPT !.pulled = @ + 1])
    /\ UNCHANGED <<now, curUser, online, syncState, conflicts, remote, push, mig, loop,
                   sweep, ghost>>

\* one row: delete the local copy for a tombstone, else log a conflict when the
\* local copy is newer, and write the remote row
PullApply ==
    /\ pull.pc = "apply"
    /\ LET entity == Kinds[pull.k]
           serverRow == pull.data[pull.i]
           localEntity == mapServerToLocal(entity, serverRow)
           existing == pull.existing
           conflict == /\ Falsy(localEntity.deletedAt)
                       /\ existing # <<>>
                       /\ IsConflict(existing[1], serverRow)
       IN  /\ conflict => Len(conflicts) < MaxConflicts
           /\ db' = [db EXCEPT ![entity] = ApplyRow(@, existing, localEntity)]
           /\ conflicts' = IF conflict
                           THEN Append(conflicts,
                                       ConflictRecord(entity, existing[1], localEntity))
                           ELSE conflicts
           /\ pull' = NextRow([pull EXCEPT !.pulled = @ + 1,
                                           !.conflicts = IF conflict THEN @ + 1 ELSE @])
    /\ UNCHANGED <<now, curUser, online, outbox, syncState, remote, push, mig, loop, sweep, ghost>>

\* a call of the local store made for one row rejects (the read of the local
\* copy, the outbox query, the write): the catch of the loop over the rows
\* logs it, the row is not counted and the loop goes on
PullRowThrows ==
    /\ pull.pc \in {"check", "apply"}
    /\ pull' = NextRow(pull)
    /\ UNCHANGED <<now, curUser, online, db, outbox, syncState, conflicts, remote, push,
                   mig, loop, sweep>>

\* the row syncPull writes at its end
PullStateRow(r) ==
    [id |-> "sync_cursor",
     lastPullCursor |-> IF r.pulled > 0 THEN toISOString(now) ELSE r.cursor,
     lastPullAt |-> now,
     userId |-> r.user]

PullPut ==
    /\ pull.pc = "finish"
    /\ syncState' = Put(syncState, PullStateRow(pull))
    /\ pull' = [pull EXCEPT !.pc = "idle", !.k = 0]
    /\ UNCHANGED <<now, curUser, online, db, outbox, conflicts, remote, push, mig, loop, sweep>>

PullFinish == PullPut /\ UNCHANGED ghost

----------------------------------------------------------------------------
(* migrateLocalToCloud, called by the auth listener of the sidebar *)

IdleMigrate == [pc |-> "idle", user |-> NULL, count |-> 0, run |-> 0, calls |-> 0,
                ret |-> 0, again |-> FALSE]

\* a filter that takes every row: what idempotent migration must exclude
AnyRow(row) == TRUE

\* the filter of migrateLocalToCloud: the rows without an owner
Anonymous(row) == Falsy(Get(row, "userId"))

\* the event added for one migrated row
MigrateEvent(o, entity, row, userId) ==
    [id |-> NextEventId(o, MigrateBase),
     entity |-> entity,
     operation |-> "create",
     entityId |-> row.id,
     payload |-> Spread(row, [userId |-> userId]),
     idempotencyKey |-> <<"migrate", entity, row.id>>,
     userId |-> userId,
     clientId |-> ClientId,
     status |-> "pending",
     retryCount |-> 0,
     createdAt |-> now]

\* one table: stamp each anonymous row and add its create event; nested counts
\* the rows (migratedCount)
RECURSIVE MigrateRows(_, _, _, _)
MigrateRows(S, entity, ids, userId) ==
    IF ids = <<>> THEN S
    ELSE LET row == S.db[entity][Head(ids)]
             S1 == [S EXCEPT !.db[entity] = Put(@, Spread(row, [userId |-> userId])),
                             !.outbox = OutboxAdd(@, MigrateEvent(S.outbox, entity, row,
                                                                  userId)),
                             !.nested = @ + 1]
         IN  MigrateRows(S1, entity, Tail(ids), userId)

MigrateTable(S, entity, userId) ==
    MigrateRows(S, entity,
                KeySeq({i \in DOMAIN S.db[entity] : Anonymous(S.db[entity][i])}), userId)

\* migrateLocalToCloud up to its call of syncPush
migrateLocalToCloud(S, userId) ==
    MigrateTable(MigrateTable(MigrateTable(MigrateTable(S, "timeslots", userId),
                                           "tags", userId),
                              "domains", userId),
                 "dailyLogs", userId)

\* onAuthStateChange(newUserId): the store takes the user; on a sign-in (or a
\* refreshed session) the cursor row is deleted and the migration starts
AuthStateChange(newUserId) ==
    /\ mig.pc = "idle"
    /\ mig.calls < MaxMigrations
    /\ curUser' = newUserId
    /\ IF newUserId = NULL
       THEN UNCHANGED <<db, outbox, syncState, mig>>
       ELSE LET S1 == migrateLocalToCloud(Store(db, outbox), newUserId)
            IN  /\ syncState' = Del(syncState, "sync_cursor")
                /\ db' = S1.db
                /\ outbox' = S1.outbox
                /\ mig' = [mig EXCEPT !.pc = "push", !.user = newUserId,
                                      !.count = S1.nested,
                                      !.again = mig.calls > 0 /\ hist.quiet]
    /\ hist' = IF newUserId = NULL THEN hist ELSE [hist EXCEPT !.quiet = TRUE]
    /\ UNCHANGED <<now, online, conflicts, remote, push, pull, loop, sweep, lastCall, mapper>>

\* await syncPush(): the migration's own push run starts
MigratePush(p) ==
    /\ mig.pc = "push"
    /\ PushEnter(p)
    /\ mig' = [mig EXCEPT !.pc = "wait", !.run = p]
    /\ UNCHANGED loop

\* syncPush returned: return { migrated: migratedCount }
MigrateReturn ==
    /\ mig.pc = "wait"
    /\ push[mig.run].pc = "idle"
    /\ mig' = [mig EXCEPT !.pc = "idle", !.calls = @ + 1, !.ret = mig.count]
    /\ UNCHANGED <<now, curUser, online, db, outbox, syncState, conflicts, remote, push,
                   pull, loop, sweep, ghost>>

----------------------------------------------------------------------------
(* startSyncLoop: runSync at once, on every timer tick and on every online
   event, until the returned stop function is called *)

\* runSync is called: a free record takes the cycle, which stands at its
\* await of getCurrentUser
CanBegin(l) == l.begun < MaxCycles /\ \E c \in DOMAIN l.cyc : l.cyc[c] = "idle"
BeginCycle(l) ==
    LET c == CHOOSE c \in DOMAIN l.cyc : l.cyc[c] = "idle"
    IN  [l EXCEPT !.cyc[c] = "gate", !.begun = @ + 1]

\* startSyncLoop(intervalMs): runSync(), setInterval(runSync, intervalMs),
\* addEventListener('online', runSync)
StartSyncLoop ==
    /\ ~loop.timer /\ ~loop.listener /\ ~loop.stopped
    /\ CanBegin(loop)
    /\ loop' = BeginCycle([loop EXCEPT !.timer = TRUE, !.listener = TRUE])
    /\ UNCHANGED <<now, curUser, online, db, outbox, syncState, conflicts, remote, push,
                   pull, mig, sweep, ghost>>

\* the interval fires
TimerTick ==
    /\ loop.timer
    /\ CanBegin(loop)
    /\ loop' = BeginCycle(loop)
    /\ UNCHANGED <<now, curUser, online, db, outbox, syncState, conflicts, remote, push,
                   pull, mig, sweep, ghost>>

\* the connection is lost
GoOffline ==
    /\ online
    /\ online' = FALSE
    /\ UNCHANGED <<now, curUser, db, outbox, syncState, conflicts, remote, push, pull,
                   mig, loop, sweep, ghost>>

\* the connection is back: the window's online event, with the listener or
\* without
GoOnline ==
    /\ ~online
    /\ online' = TRUE
    /\ IF loop.listener
       THEN CanBegin(loop) /\ loop' = BeginCycle(loop)
       ELSE UNCHANGED loop
    /\ UNCHANGED <<now, curUser, db, outbox, syncState, conflicts, remote, push, pull,
                   mig, sweep, ghost>>

\* a stop function that clears the interval and leaves the listener
StopTimerOnly ==
    /\ loop.timer
    /\ loop' = [loop EXCEPT !.timer = FALSE, !.stopped = TRUE,
                            !.atStop = {c \in DOMAIN loop.cyc : loop.cyc[c] # "idle"},
                            !.offAtStop = ~online]
    /\ UNCHANGED <<now, curUser, online, db, outbox, syncState, conflicts, remote, push,
                   pull, mig, sweep, ghost>>

\* the returned function: clearInterval(syncInterval),
\* removeEventListener('online', runSync); history: the cycles running then,
\* and whether the connection was down then
StopSyncLoop ==
    /\ loop.timer
    /\ loop' = [loop EXCEPT !.timer = FALSE, !.listener = FALSE, !.stopped = TRUE,
                            !.atStop = {c \in DOMAIN loop.cyc : loop.cyc[c] # "idle"},
                            !.offAtStop = ~online]
    /\ UNCHANGED <<now, curUser, online, db, outbox, syncState, conflicts, remote, push,
                   pull, mig, sweep, ghost>>

\* a runSync without its test of the user and the connection: what the gate
\* of the cycles must exclude
CycleUngated(c) ==
    /\ loop.cyc[c] = "gate"
    /\ PushEnter(c)
    /\ loop' = [loop EXCEPT !.cyc[c] = "push"]
    /\ UNCHANGED mig

\* runSync after getCurrentUser answered: if (!user || !navigator.onLine)
\* return; else await syncPush(); history: a cycle returned at the test
\* while the outbox held an event to push, and the user each running cycle
\* found at its test
CycleGate(c) ==
    /\ loop.cyc[c] = "gate"
    /\ IF getCurrentUser = NULL \/ ~online
       THEN /\ loop' = [loop EXCEPT !.cyc[c] = "idle",
                                    !.gated = @ \/ pendingEvents(outbox) # {<<>>}]
            /\ UNCHANGED <<now, curUser, online, db, outbox, syncState, conflicts,
                           remote, push, pull, mig, sweep, ghost>>
       ELSE /\ PushEnter(c)
            /\ loop' = [loop EXCEPT !.cyc[c] = "push", !.owner[c] = getCurrentUser]
            /\ UNCHANGED mig

\* syncPush returned: await syncPull()
CyclePull(c) ==
    /\ loop.cyc[c] = "push"
    /\ push[c].pc = "idle"
    /\ PullEnter
    /\ loop' = [loop EXCEPT !.cyc[c] = "pull"]

\* syncPull returned: runSync returns
CycleEnd(c) ==
    /\ loop.cyc[c] = "pull"
    /\ pull.pc = "idle"
    /\ loop' = [loop EXCEPT !.cyc[c] = "idle", !.owner[c] = NULL]
    /\ UNCHANGED <<now, curUser, online, db, outbox, syncState, conflicts, remote, push,
                   pull, mig, sweep, ghost>>

\* the steps of cycle c, and those of the syncPull a cycle awaits
CycleStep(c) ==
    \/ CycleGate(c)
    \/ PushMark(c) \/ PushSynced(c) \/ PushFailed(c) \/ PushFinish(c)
    \/ CyclePull(c)
    \/ CycleEnd(c)
PullStep == PullQuery \/ PullQueryFailed \/ PullCheck \/ PullApply \/ PullFinish

----------------------------------------------------------------------------
(* Calls of the helpers by the user interface, each a whole handler *)

\* lastCall before any call, and lastCall where calls are not recorded
NoCall == [fn |-> "none", entity |-> "none", id |-> 0, had |-> FALSE, ok |-> TRUE,
           n0 |-> 0, nested |-> 0]
NotRecorded == [NoCall EXCEPT !.fn = "off"]

\* an id no entity, outbox event or remote row carries yet
Fresh(entity, id) ==
    /\ ~Has(db[entity], id)
    /\ \A k \in 1..Len(outbox) : outbox[k].entityId # id
    /\ \A key \in DOMAIN remote[entity] : key[1] # id

\* the helper fn was called for id of a table and left the store S1; lastCall
\* keeps whether the id was there (had) and the outbox length before (n0)
Returned(fn, entity, id, S1) ==
    /\ Len(S1.outbox) <= MaxOutbox
    /\ db' = S1.db
    /\ outbox' = S1.outbox
    /\ lastCall' = IF lastCall.fn = "off" THEN lastCall
                    ELSE [fn |-> fn, entity |-> entity, id |-> id,
                          had |-> Has(db[entity], id), ok |-> S1.ok,
                          n0 |-> Len(outbox), nested |-> S1.nested]
    /\ hist' = [hist EXCEPT !.quiet = FALSE]
    /\ UNCHANGED <<now, curUser, online, syncState, conflicts, remote, push, pull, mig, loop, sweep,
                   mapper>>

Here == Store(db, outbox)

CreateTimeSlot(slot, newId) ==
    /\ Fresh("timeslots", newId)
    /\ Returned("createTimeSlot", "timeslots", newId, createTimeSlot(Here, slot, newId))

UpdateTimeSlot(id, updates) ==
    Returned("updateTimeSlot", "timeslots", id, updateTimeSlot(Here, id, updates))

DeleteTimeSlot(id) ==
    Returned("deleteTimeSlot", "timeslots", id, deleteTimeSlot(Here, id))

CreateTag(tag, newId) ==
    /\ Fresh("tags", newId)
    /\ Returned("createTag", "tags", newId, createTag(Here, tag, newId))

UpdateTag(id, updates) ==
    Returned("updateTag", "tags", id, updateTag(Here, id, updates))

DeleteTag(id) ==
    Returned("deleteTag", "tags", id, deleteTag(Here, id))

ArchiveTag(id) ==
    Returned("archiveTag", "tags", id, archiveTag(Here, id))

UnarchiveTag(id) ==
    Returned("unarchiveTag", "tags", id, unarchiveTag(Here, id))

CreateDomain(domain, newId) ==
    /\ Fresh("domains", newId)
    /\ Returned("createDomain", "domains", newId, createDomain(Here, domain, newId))

UpdateDomain(id, updates) ==
    Returned("updateDomain", "domains", id, updateDomain(Here, id, updates))

DeleteDomain(id) ==
    Returned("deleteDomain", "domains", id, deleteDomain(Here, id))

ArchiveDomain(id) ==
    Returned("archiveDomain", "domains", id, archiveDomain(Here, id))

UnarchiveDomain(id) ==
    Returned("unarchiveDomain", "domains", id, unarchiveDomain(Here, id))

UpsertDailyLog(date, markdown) ==
    Returned("upsertDailyLog", "dailyLogs", LogId(date), upsertDailyLog(Here, date, markdown))

----------------------------------------------------------------------------
(* The environment: the clock, the network, another device of the same owner *)

Tick ==
    /\ now < MaxTime
    /\ now' = now + 1
    /\ UNCHANGED <<curUser, online, db, outbox, syncState, conflicts, remote, push, pull,
                   mig, loop, sweep, ghost>>

\* navigator.onLine changes
Network ==
    /\ online' = ~online
    /\ UNCHANGED <<now, curUser, db, outbox, syncState, conflicts, remote, push, pull,
                   mig, loop, sweep, ghost>>

\* another device of owner userId pushed a create/update event of an entity it
\* pulled before, or of one it created (ids are unique across devices)
OtherDeviceUpsert(entity, userId, local) ==
    /\ <<local.id, userId>> \in DOMAIN remote[entity] \/ Fresh(entity, local.id)
    /\ remote' = [remote EXCEPT ![entity] =
                     Upsert(@, mapLocalToServer(entity,
                                 Spread(local, [userId |-> userId,
                                                clientId |-> OtherClientId])))]
    /\ UNCHANGED <<now, curUser, online, db, outbox, syncState, conflicts, push, pull,
                   mig, loop, sweep, ghost>>

\* another device of owner userId pushed a delete event of this entity at time t
OtherDeviceDelete(entity, userId, id, t) ==
    /\ <<id, userId>> \in DOMAIN remote[entity]
    /\ remote[entity][<<id, userId>>].deleted_at = NULL
    /\ remote' = [remote EXCEPT ![entity] =
                     UpdateWhere(@, id, userId, [deleted_at |-> toISOString(t),
                                                 updated_at |-> toISOString(t)])]
    /\ UNCHANGED <<now, curUser, online, db, outbox, syncState, conflicts, push, pull,
                   mig, loop, sweep, ghost>>

----------------------------------------------------------------------------
(* The sync engine beside the user interface and another device *)

Owners == 1..NumOwners
PushRuns == 1..NumPushRuns
SlotIds == {SlotId(n) : n \in 1..NumSlots}
TagIds == {TagId(n) : n \in 1..NumTags}
Notes == 1..NumNotes
Times == 1..MaxTime

NoMapper == [phase |-> "off"]
\* no loop started: no timer, no listener, no cycle
IdleLoop == [timer |-> FALSE, listener |-> FALSE, stopped |-> FALSE,
             cyc |-> [c \in PushRuns |-> "idle"], begun |-> 0, atStop |-> {},
             offAtStop |-> FALSE, gated |-> FALSE,
             owner |-> [c \in PushRuns |-> NULL]]
EmptyTables == [k \in KindSet |-> <<>>]

\* what the user interface passes to createTimeSlot
SlotInput(note, tagIds) ==
    [start |-> 1, end |-> 2, note |-> note, tagIds |-> tagIds,
     energy |-> UNDEF, mood |-> UNDEF]

\* what the user interface passes to createTag and createDomain
TagInput(name) == [domainId |-> DomainId(1), name |-> name, color |-> UNDEF]
DomainInput(name) == [name |-> name, color |-> 1, colorEnd |-> UNDEF, order |-> 1]

\* a time slot as another device holds it
OtherSlot(id, note, t) ==
    Spread(SlotInput(note, <<>>),
           [id |-> id, version |-> 1, createdAt |-> 1, updatedAt |-> t,
            deletedAt |-> UNDEF])

\* a tag as another device holds it
OtherTag(id, t) ==
    Spread(TagInput(1), [id |-> id, createdAt |-> 1, updatedAt |-> t, deletedAt |-> UNDEF])

\* the state after construction: an empty local database, an empty remote
InitStore ==
    /\ now = 1
    /\ db = EmptyTables
    /\ outbox = <<>>
    /\ syncState = <<>>
    /\ conflicts = <<>>
    /\ remote = EmptyTables
    /\ push = [p \in PushRuns |-> IdlePush]
    /\ pull = IdlePull
    /\ mig = IdleMigrate
    /\ loop = IdleLoop
    /\ sweep = IdleSweep
    /\ hist = [fails |-> <<>>, quiet |-> FALSE, skipped |-> FALSE, sent |-> <<>>,
               storedBy |-> NULL, fault |-> <<>>, reloads |-> 0]

\* the user is signed in, or not, when the page loads
InitSync ==
    /\ InitStore
    /\ online = TRUE
    /\ curUser \in {NULL} \cup Owners
    /\ lastCall = NotRecorded
    /\ mapper = NoMapper

LocalEdit ==
    \/ \E id \in SlotIds : CreateTimeSlot(SlotInput(1, <<>>), id)
    \/ \E id \in SlotIds, note \in Notes : UpdateTimeSlot(id, [note |-> note])
    \/ \E id \in SlotIds : DeleteTimeSlot(id)

OtherDevice ==
    \/ \E u \in Owners, id \in SlotIds, t \in Times :
          OtherDeviceUpsert("timeslots", u, OtherSlot(id, 1, t))
    \/ \E u \in Owners, id \in SlotIds, t \in Times :
          OtherDeviceDelete("timeslots", u, id, t)

PushRun(p) ==
    PushBegin(p) \/ PushMark(p) \/ PushSynced(p) \/ PushFailed(p) \/ PushFinish(p)

Pull ==
    PullBegin \/ PullQuery \/ PullQueryFailed \/ PullCheck \/ PullApply \/ PullFinish

\* one syncPush at a time, beside the user's edits
NextPush ==
    \/ Network
    \/ Len(outbox) < PushMaxOutbox /\ LocalEdit
    \/ PushRun(1)
SpecPush == InitSync /\ [][NextPush]_vars

\* overlapping syncPush runs (the timer, the online event, the migration)
NextOverlap ==
    \/ Network
    \/ Len(outbox) < OverlapMaxOutbox /\ LocalEdit
    \/ \E p \in PushRuns : PushRun(p)
SpecOverlap == InitSync /\ [][NextOverlap]_vars

\* the remote row of an event's entity under an owner, <<>> when there is none
RemoteRowOf(rem, event, userId) ==
    IF <<event.entityId, userId>> \in DOMAIN rem[event.entity]
    THEN rem[event.entity][<<event.entityId, userId>>]
    ELSE <<>>

\* a send that reaches the remote, with or without its answer reaching the
\* client; history: what the send left of the entity's row, and under whom
PushDelivered(p) ==
    /\ \E acked \in BOOLEAN :
          /\ push[p].pc = "send"
          /\ acked \/ CountOf(hist.fails, push[p].batch[push[p].i].id) < ResendMaxRetry
          /\ PushSend(p, acked)
          /\ LET snap == push[p].batch[push[p].i]
                 event == EventById(outbox, snap.id)
                 left == pushEventToSupabase(remote, event, push[p].user)
                 seen == [row |-> RemoteRowOf(left, event, push[p].user),
                          user |-> push[p].user]
             IN  hist' = [hist EXCEPT
                            !.sent = [k \in DOMAIN @ \cup {snap.id} |->
                                         IF k = snap.id THEN seen ELSE @[k]],
                            !.fails = IF acked THEN @ ELSE CountUp(@, snap.id)]
    /\ UNCHANGED <<lastCall, mapper>>

\* events sent again: by a later run after a lost answer (ResendMaxRetry answers lost per event),
\* or by a second run that picked the same event
NextResend ==
    \/ Len(outbox) < ResendMaxOutbox /\ LocalEdit
    \/ \E p \in PushRuns : PushBegin(p) \/ PushMark(p) \/ PushFinish(p)
    \/ \E p \in PushRuns : PushDelivered(p)
SpecResend == InitSync /\ [][NextResend]_vars

\* the accounts that sign in on this device, one after the other
Accounts == 1..NumAccounts

\* the cursor update of a pull; history: the owner whose pull stored the row
PullStored ==
    /\ PullPut
    /\ hist' = [hist EXCEPT !.storedBy = pull.user]
    /\ UNCHANGED <<lastCall, mapper>>

\* every account has another device, which creates and edits a slot of its own
OtherAccounts ==
    \E u \in Accounts, t \in Times :
       OtherDeviceUpsert("timeslots", u, OtherSlot(SlotId(u), 1, t))

InitOwners ==
    /\ InitStore
    /\ online = TRUE
    /\ curUser \in {NULL} \cup Accounts
    /\ lastCall = NotRecorded
    /\ mapper = NoMapper

\* accounts signing in and out on one device while it pulls and pushes
NextOwners ==
    \/ Tick
    \/ \E u \in {NULL} \cup Accounts : AuthStateChange(u)
    \/ MigratePush(1) \/ MigrateReturn
    \/ OtherAccounts
    \/ PullBegin \/ PullQuery \/ PullQueryFailed \/ PullCheck \/ PullApply \/ PullStored
SpecOwners == InitOwners /\ [][NextOwners]_vars

\* no event has failed PullMaxRetry times yet
FewRetries == \A k \in 1..Len(outbox) : outbox[k].retryCount < PullMaxRetry

\* syncPull beside the user's edits, another device and syncPush
NextPull ==
    \/ Tick
    \/ Network
    \/ Len(outbox) < PullMaxOutbox /\ LocalEdit
    \/ OtherDevice
    \/ PushBegin(1) \/ PushMark(1) \/ PushSynced(1) \/ PushFinish(1)
    \/ FewRetries /\ PushFailed(1)
    \/ Pull
SpecPull == InitSync /\ [][NextPull]_vars

\* the page loads with or without a network, which then stays as it is
InitFixedNet ==
    /\ InitStore
    /\ online \in BOOLEAN
    /\ curUser \in {NULL} \cup Owners
    /\ lastCall = NotRecorded
    /\ mapper = NoMapper

NextFixedNet ==
    \/ Len(outbox) < FixedNetMaxOutbox /\ LocalEdit
    \/ PushRun(1)
    \/ Pull
SpecFixedNet == InitFixedNet /\ [][NextFixedNet]_vars

----------------------------------------------------------------------------
(* The helpers alone: every call the user interface can make *)

InitCrud ==
    /\ InitStore
    /\ online = TRUE
    /\ curUser \in {NULL} \cup Owners
    /\ lastCall = NoCall
    /\ mapper = NoMapper

CrudEdit ==
    \/ \E id \in SlotIds, tagIds \in {<<>>, <<TagId(1)>>, <<TagId(1), TagId(2)>>} :
          CreateTimeSlot(SlotInput(1, tagIds), id)
    \/ \E id \in SlotIds : UpdateTimeSlot(id, [note |-> 0])
    \/ \E id \in SlotIds : DeleteTimeSlot(id)
    \/ \E id \in TagIds : CreateTag(TagInput(1), id)
    \/ \E id \in TagIds : UpdateTag(id, [color |-> 1])
    \/ \E id \in TagIds : DeleteTag(id)
    \/ \E id \in TagIds : ArchiveTag(id)
    \/ \E id \in TagIds : UnarchiveTag(id)
    \/ CreateDomain(DomainInput(1), DomainId(1))
    \/ UpdateDomain(DomainId(1), [order |-> 2])
    \/ DeleteDomain(DomainId(1))
    \/ ArchiveDomain(DomainId(1))
    \/ UnarchiveDomain(DomainId(1))
    \/ UpsertDailyLog(1, 1)

\* the helper calls, up to CrudMaxOutbox events
NextCrud == CrudEdit /\ Len(outbox') <= CrudMaxOutbox
SpecCrud == InitCrud /\ [][NextCrud]_vars

\* tags and domains created under names that differ, agree, or agree up to
\* case (name 1 is a capitalised spelling of name 2), and deleted again
Names == 1..NumNames
NextNames ==
    /\ \/ \E n \in 1..NumNamed, name \in Names, d \in 1..NumNamed :
             CreateTag([TagInput(name) EXCEPT !.domainId = DomainId(d)], TagId(n))
       \/ \E n \in 1..NumNamed : DeleteTag(TagId(n))
       \/ \E n \in 1..NumNamed : ArchiveTag(TagId(n))
       \/ \E n \in 1..NumNamed, name \in Names : CreateDomain(DomainInput(name), DomainId(n))
       \/ \E n \in 1..NumNamed : DeleteDomain(DomainId(n))
    /\ Len(outbox') <= NamesMaxOutbox
SpecNames == InitCrud /\ [][NextNames]_vars

\* tags put on several time slots and deleted again
CascadeSlotIds == {SlotId(n) : n \in 1..NumCascadeSlots}
NextCascade ==
    \/ \E id \in CascadeSlotIds, tagIds \in {<<>>, <<TagId(1)>>, <<TagId(1), TagId(2)>>} :
          CreateTimeSlot(SlotInput(1, tagIds), id)
    \/ \E id \in CascadeSlotIds : DeleteTimeSlot(id)
    \/ CreateTag(TagInput(1), TagId(1))
    \/ DeleteTag(TagId(1))
SpecCascade == InitCrud /\ [][NextCascade]_vars

\* the page with its sync loop: the user's edits, the connection, the cycles
NextLoop ==
    \/ StartSyncLoop
    \/ TimerTick
    \/ GoOffline
    \/ GoOnline
    \/ StopSyncLoop
    \/ Len(outbox) < LoopMaxOutbox /\ LocalEdit
    \/ \E c \in PushRuns : CycleStep(c)
    \/ PullStep
SpecLoop == InitSync /\ [][NextLoop]_vars

\* an entity kind the mapper has no branch for, and the id of its entity
OtherKind == "habits"
OtherKindId == LogId(MaxTime) + 1

\* the default branch of the mapper's switch: throw new Error('Unknown entity
\* type')
mapLocalToServerThrows(entity) == entity \notin KindSet

\* the event the push is at is one pushEventToSupabase can map
Mappable(p) ==
    LET event == EventById(outbox, push[p].batch[push[p].i].id)
    IN  event.operation = "delete" \/ ~mapLocalToServerThrows(event.entity)

\* a helper of a kind the mapper does not know records a create or an update
AddUnsupported ==
    /\ \E operation \in {"create", "update"} :
          outbox' = addToOutbox(Here, OtherKind, operation, OtherKindId,
                                [id |-> OtherKindId, createdAt |-> now,
                                 updatedAt |-> now, deletedAt |-> UNDEF]).outbox
    /\ UNCHANGED <<now, curUser, online, db, syncState, conflicts, remote, push, pull,
                   mig, loop, sweep, ghost>>

\* pushEventToSupabase calls mapLocalToServer, which throws: the catch of the
\* loop over the events runs
PushUnsupported(p) ==
    /\ push[p].pc = "send"
    /\ ~Mappable(p)
    /\ PushFailed(p)

\* syncPush with events of a kind the mapper has no branch for
NextUnsupported ==
    \/ Network
    \/ Len(outbox) < UnsupportedMaxOutbox /\ LocalEdit
    \/ Len(outbox) < UnsupportedMaxOutbox /\ AddUnsupported
    \/ PushBegin(1)
    \/ PushMark(1)
    \/ push[1].pc = "send" /\ Mappable(1) /\ PushSynced(1)
    \/ push[1].pc = "send" /\ Mappable(1) /\ PushFailed(1)
    \/ PushUnsupported(1)
    \/ PushFinish(1)
SpecUnsupported == InitSync /\ [][NextUnsupported]_vars

\* the page is closed, or crashes, and is opened again: every running
\* syncPush and syncPull is abandoned at the await it stands at; what IndexedDB
\* and the remote hold stays; history: the number of times
Reload ==
    /\ hist.reloads < MaxReloads
    /\ push' = [p \in PushRuns |-> IdlePush]
    /\ pull' = IdlePull
    /\ hist' = [hist EXCEPT !.reloads = @ + 1]
    /\ UNCHANGED <<now, curUser, online, db, outbox, syncState, conflicts, remote, mig,
                   loop, sweep, lastCall, mapper>>

\* syncPush, called again and again, on a page that is closed and opened
NextReload ==
    \/ Len(outbox) < ReloadMaxOutbox /\ LocalEdit
    \/ PushBegin(1)
    \/ PushMark(1)
    \/ PushSynced(1)
    \/ PushFailed(1)
    \/ PushFinish(1)
    \/ Reload
\* a run that is not abandoned goes on: every await of a run settles
ReloadFairness == WF_vars(PushRun(1))
SpecReload == InitSync /\ [][NextReload]_vars /\ ReloadFairness

\* offline, the user queues up to DrainEvents events, more than one batch holds
QueueUp ==
    /\ ~online
    /\ Len(outbox) < DrainEvents
    /\ LET S1 == IF outbox = <<>>
                 THEN createTimeSlot(Here, SlotInput(1, <<>>), SlotId(1))
                 ELSE updateTimeSlot(Here, SlotId(1), [note |-> 1])
       IN  db' = S1.db /\ outbox' = S1.outbox
    /\ UNCHANGED <<now, curUser, online, syncState, conflicts, remote, push, pull, mig,
                   loop, sweep, ghost>>

Queued == Len(outbox) = DrainEvents
\* at most DrainOverlap events still wait for a run
FewWaiting == Cardinality({k \in 1..Len(outbox) : Selectable(outbox[k])}) <= DrainOverlap
NoneSyncedYet == \A k \in 1..Len(outbox) : outbox[k].status # "synced"

\* back online the user edits no more and the sync loop keeps running: the
\* remote accepts every write once it has accepted one, and near the end of
\* the queue a timer tick finds the run before still in flight
NextDrain ==
    \/ QueueUp
    \/ Queued /\ GoOnline
    \/ online /\ PushBegin(1)
    \/ online /\ FewWaiting /\ PushBegin(2)
    \/ \E p \in PushRuns : PushMark(p)
    \/ \E p \in PushRuns : PushSynced(p)
    \/ \E p \in PushRuns : NoneSyncedYet /\ FewRetries /\ PushFailed(p)
    \/ \E p \in PushRuns : PushFinish(p)
\* the timer keeps calling runSync, and every await of a run settles
DrainFairness ==
    /\ WF_vars(online /\ PushBegin(1))
    /\ \A p \in PushRuns : WF_vars(PushMark(p) \/ PushSynced(p) \/ PushFinish(p))
SpecDrain == InitFixedNet /\ [][NextDrain]_vars /\ DrainFairness

\* accounts signing in and out on one device, which records, migrates and
\* pushes, with and without a network
NextAccounts ==
    \/ Network
    \/ Len(outbox) < AccountsMaxOutbox /\ LocalEdit
    \/ \E u \in {NULL} \cup Accounts : AuthStateChange(u)
    \/ MigratePush(1)
    \/ MigrateReturn
    \/ mig.pc = "idle" /\ PushBegin(1)
    \/ PushMark(1)
    \/ PushSynced(1)
    \/ FewRetries /\ PushFailed(1)
    \/ PushFinish(1)
SpecAccounts == InitOwners /\ [][NextAccounts]_vars

\* the sync loop while accounts sign in and out
NextCycleOwner ==
    \/ StartSyncLoop
    \/ TimerTick
    \/ \E u \in {NULL} \cup Accounts : AuthStateChange(u)
    \/ \E p \in PushRuns : MigratePush(p)
    \/ MigrateReturn
    \/ Len(outbox) < CycleOwnerMaxOutbox /\ LocalEdit
    \/ \E c \in PushRuns : CycleGate(c)
    \/ \E p \in PushRuns : PushMark(p) \/ PushSynced(p) \/ PushFinish(p)
    \/ \E c \in PushRuns : CyclePull(c)
    \/ \E c \in PushRuns : CycleEnd(c)
    \/ PullQuery \/ PullCheck \/ PullApply \/ PullFinish
SpecCycleOwner == InitOwners /\ [][NextCycleOwner]_vars

\* the event loop resumes every continuation whose awaited call has settled
LoopFairness == (\A c \in PushRuns : WF_vars(CycleStep(c))) /\ WF_vars(PullStep)
SpecLoopFair == SpecLoop /\ LoopFairness

\* another device of the owner holds FaultSlots time slots and a tag
FaultSlotIds == {SlotId(n) : n \in 1..FaultSlots}
OtherRows ==
    \/ \E id \in FaultSlotIds : OtherDeviceUpsert("timeslots", 1, OtherSlot(id, 1, 1))
    \/ OtherDeviceUpsert("tags", 1, OtherTag(TagId(1), 1))

\* a failing pull query, a failing row; history: the kind, and the row, of
\* the last failure
PullQueryFault ==
    /\ PullQueryThrows
    /\ hist' = [hist EXCEPT !.fault = <<pull.k, 0>>]
    /\ UNCHANGED <<lastCall, mapper>>

PullRowFault ==
    /\ PullRowThrows
    /\ hist' = [hist EXCEPT !.fault = <<pull.k, pull.i>>]
    /\ UNCHANGED <<lastCall, mapper>>

\* the steps of runSync around syncPull, and those of syncPull with its failures
CyclePullStep(c) == CycleGate(c) \/ CyclePull(c) \/ CycleEnd(c)
PullFaultStep ==
    PullQuery \/ PullQueryFault \/ PullCheck \/ PullApply \/ PullRowFault \/ PullFinish

\* the loop pulls the rows of another device while queries and rows fail
NextFaults ==
    \/ OtherRows
    \/ StartSyncLoop
    \/ TimerTick
    \/ \E c \in PushRuns : CyclePullStep(c)
    \/ PullFaultStep
\* the same pulls, outside the loop, while the clock runs and the user edits
NextCursor ==
    \/ Tick
    \/ OtherRows
    \/ Len(outbox) < CursorMaxOutbox /\ \E id \in SlotIds, note \in Notes :
                                           UpdateTimeSlot(id, [note |-> note])
    \/ PullBegin
    \/ PullQuery
    \/ PullQueryFault
    \/ PullCheck
    \/ PullApply
    \/ PullRowFault
    \/ PullFinish
SpecCursor == InitSync /\ [][NextCursor]_vars

\* the tag is in the local table and not soft-deleted: what the tag picker offers
LiveTag(id) == Has(db.tags, id) /\ Falsy(Get(db.tags[id], "deletedAt"))

\* the user's tags and domains, named, renamed, put on a time slot and
\* deleted, beside another device of the same owner that creates and deletes
\* tags, and the pulls that bring its rows
SharedEdit ==
    \/ \E name \in Names : CreateTag(TagInput(name), TagId(1))
    \/ \E name \in Names : UpdateTag(TagId(1), [name |-> name])
    \/ \E n \in 1..NumNamed : DeleteTag(TagId(n))
    \/ \E n \in 1..NumNamed, name \in Names : CreateDomain(DomainInput(name), DomainId(n))
    \/ \E name \in Names : UpdateDomain(DomainId(1), [name |-> name])
    \/ \E n \in 1..NumNamed :
          LiveTag(TagId(n)) /\ CreateTimeSlot(SlotInput(1, <<TagId(n)>>), SlotId(1))
NextShared ==
    \/ Len(outbox) < SharedMaxOutbox /\ SharedEdit
    \/ \E t \in Times : OtherDeviceUpsert("tags", 1, OtherTag(TagId(2), t))
    \/ \E t \in Times : OtherDeviceDelete("tags", 1, TagId(2), t)
    \/ PullBegin
    \/ PullQuery
    \/ PullCheck
    \/ PullApply
    \/ PullFinish
SpecShared == InitSync /\ [][NextShared]_vars

FaultFairness == (\A c \in PushRuns : WF_vars(CyclePullStep(c))) /\ WF_vars(PullFaultStep)
SpecFaults == InitSync /\ [][NextFaults]_vars /\ FaultFairness

----------------------------------------------------------------------------
(* Sign-in: the migration of the anonymous data and its push *)

MigrateEdit ==
    \/ \E id \in SlotIds : CreateTimeSlot(SlotInput(1, <<>>), id)
    \/ CreateTag(TagInput(1), TagId(1))
    \/ CreateDomain(DomainInput(1), DomainId(1))
    \/ UpsertDailyLog(1, 1)

NextMigrate ==
    \/ Len(outbox) < MigrateMaxOutbox /\ MigrateEdit
    \/ \E u \in {NULL} \cup Owners : AuthStateChange(u)
    \/ MigratePush(1)
    \/ PushMark(1) \/ PushSynced(1) \/ PushFailed(1) \/ PushFinish(1)
    \/ MigrateReturn
SpecMigrate == InitSync /\ [][NextMigrate]_vars

\* the same while the clock runs: events of the helpers and of the migration
\* created at different times, pushed and pushed again after a failure
NextOrder == Tick \/ NextMigrate
SpecOrder == InitSync /\ [][NextOrder]_vars

----------------------------------------------------------------------------
(* The store over a month: helper calls and pushes (also of another device)
   on the first day, pulls on the later days, and the retention sweep of
   each page load, which ends on the day it began *)

\* the days on which something happens: the first, a week later and the day
\* after, a month after the first and the day after
Instants == {1, 1 + SEVEN_DAYS, 2 + SEVEN_DAYS, 1 + THIRTY_DAYS, 2 + THIRTY_DAYS}
DaysPass ==
    /\ \E t \in Instants :
          /\ t > now
          /\ \A u \in Instants : u > now => t <= u
          /\ now' = t
    /\ UNCHANGED <<curUser, online, db, outbox, syncState, conflicts, remote, push, pull,
                   mig, loop, sweep, ghost>>

Sweep == SweepBegin \/ SweepScan \/ SweepDelete \/ SweepOutbox

NextSweep ==
    \/ sweep.pc = "idle" /\ DaysPass
    \/ now = 1 /\ Len(outbox) < SweepMaxOutbox
                /\ \E id \in SlotIds : CreateTimeSlot(SlotInput(1, <<>>), id)
    \/ now = 1 /\ Len(outbox) < SweepMaxOutbox /\ \E id \in SlotIds : DeleteTimeSlot(id)
    \/ now = 1 /\ PushBegin(1)
    \/ now = 1 /\ PushMark(1)
    \/ now = 1 /\ PushSynced(1)
    \/ now = 1 /\ FewRetries /\ PushFailed(1)
    \/ now = 1 /\ PushFinish(1)
    \/ now = 1 /\ \E id \in SlotIds : OtherDeviceUpsert("timeslots", 1, OtherSlot(id, 1, 1))
    \/ now > 1 /\ PullBegin
    \/ now > 1 /\ PullQuery
    \/ now > 1 /\ PullCheck
    \/ now > 1 /\ PullApply
    \/ now > 1 /\ PullFinish
    \/ Sweep
SpecSweep == InitSync /\ [][NextSweep]_vars

\* a month passes between two visits of the page
MonthPasses ==
    /\ now = 1
    /\ now' = 2 + THIRTY_DAYS
    /\ UNCHANGED <<curUser, online, db, outbox, syncState, conflicts, remote, push, pull,
                   mig, loop, sweep, ghost>>

\* every writer of the outbox: on the first day the helpers, a sign-in with
\* its migration and the pushes; a month later the pulls and the sweep
NextContent ==
    \/ sweep.pc = "idle" /\ MonthPasses
    \/ now = 1 /\ Len(outbox) < SweepMaxOutbox
                /\ \E id \in SlotIds : CreateTimeSlot(SlotInput(1, <<>>), id)
    \/ now = 1 /\ Len(outbox) < SweepMaxOutbox /\ \E id \in SlotIds : DeleteTimeSlot(id)
    \/ now = 1 /\ \E u \in {NULL} \cup Owners : AuthStateChange(u)
    \/ now = 1 /\ MigratePush(1)
    \/ now = 1 /\ MigrateReturn
    \/ now = 1 /\ PushBegin(1)
    \/ now = 1 /\ PushMark(1)
    \/ now = 1 /\ PushSynced(1)
    \/ now = 1 /\ FewRetries /\ PushFailed(1)
    \/ now = 1 /\ PushFinish(1)
    \/ now = 1 /\ \E id \in SlotIds : OtherDeviceUpsert("timeslots", 1, OtherSlot(id, 1, 1))
    \/ now > 1 /\ PullBegin
    \/ now > 1 /\ PullQuery
    \/ now > 1 /\ PullCheck
    \/ now > 1 /\ PullApply
    \/ now > 1 /\ PullFinish
    \/ Sweep
SpecContent == InitSync /\ [][NextContent]_vars

----------------------------------------------------------------------------
(* The entity mapper alone: both round trips *)

\* the fields every entity carries, as the helpers write them
BaseFields(id, t, deletedAt) ==
    [id |-> id, userId |-> 1, clientId |-> ClientId, createdAt |-> 1, updatedAt |-> t,
     deletedAt |-> deletedAt]

\* the entities the helpers can have written, kind by kind
LocalEntities(entity) ==
    CASE entity = "timeslots" ->
           {Spread(BaseFields(SlotId(1), t, d),
                   [start |-> 1, end |-> 2, note |-> n, tagIds |-> g, energy |-> e,
                    mood |-> e, version |-> 1]) :
              t \in Times, d \in {UNDEF, MaxTime}, n \in {UNDEF, 0, 1},
              g \in {<<>>, <<TagId(1)>>}, e \in {UNDEF, 3}}
      [] entity = "tags" ->
           {Spread(BaseFields(TagId(1), t, d),
                   [domainId |-> DomainId(1), name |-> 1, color |-> c, archivedAt |-> a]) :
              t \in Times, d \in {UNDEF, MaxTime}, c \in {UNDEF, 1}, a \in {UNDEF, MaxTime}}
      [] entity = "domains" ->
           {Spread(BaseFields(DomainId(1), t, d),
                   [name |-> 1, color |-> 1, colorEnd |-> c, order |-> 1,
                    archivedAt |-> a]) :
              t \in Times, d \in {UNDEF, MaxTime}, c \in {UNDEF, 1}, a \in {UNDEF, MaxTime}}
      [] entity = "dailyLogs" ->
           {Spread(BaseFields(LogId(1), t, d), [date |-> 1, markdown |-> m]) :
              t \in Times, d \in {UNDEF, MaxTime}, m \in {0, 1}}

\* the rows the remote can hold: what some device pushed, its timestamps kept
\* by the remote with a fraction of a millisecond
RemoteRows(entity) ==
    {[mapLocalToServer(entity, e) EXCEPT !.updated_at = @ + f] :
        e \in LocalEntities(entity), f \in 0..(SubMs - 1)}

InitMapper ==
    /\ InitStore
    /\ online = TRUE
    /\ curUser = NULL
    /\ lastCall = NotRecorded
    /\ \E entity \in KindSet :
          \/ \E e \in LocalEntities(entity) :
                mapper = [phase |-> "local", entity |-> entity, local |-> e]
          \/ \E r \in RemoteRows(entity) :
                mapper = [phase |-> "row", entity |-> entity, row |-> r]

Mapped(m) ==
    /\ mapper' = m
    /\ UNCHANGED <<now, curUser, online, db, outbox, syncState, conflicts, remote, push,
                   pull, mig, loop, sweep, lastCall, hist>>

\* local -> remote -> local
MapOut ==
    /\ mapper.phase = "local"
    /\ Mapped(Spread(mapper, [phase |-> "sent",
                              row |-> mapLocalToServer(mapper.entity, mapper.local)]))
MapOutBack ==
    /\ mapper.phase = "sent"
    /\ Mapped(Spread(mapper, [phase |-> "localAgain",
                              back |-> mapServerToLocal(mapper.entity, mapper.row)]))

\* remote -> local -> remote
MapIn ==
    /\ mapper.phase = "row"
    /\ Mapped(Spread(mapper, [phase |-> "received",
                              local |-> mapServerToLocal(mapper.entity, mapper.row)]))
MapInBack ==
    /\ mapper.phase = "received"
    /\ Mapped(Spread(mapper, [phase |-> "rowAgain",
                              back |-> mapLocalToServer(mapper.entity, mapper.local)]))

NextMapper == MapOut \/ MapOutBack \/ MapIn \/ MapInBack
SpecMapper == InitMapper /\ [][NextMapper]_vars

----------------------------------------------------------------------------
(* Properties of the helpers (SpecCrud) *)

\* the helpers that return without an error when their target is absent
SilentOnAbsent == {"deleteTimeSlot", "deleteTag", "deleteDomain", "archiveTag",
                   "unarchiveTag", "archiveDomain", "unarchiveDomain"}

\* the operation the event of the last call has to name
OperationOf(call) ==
    CASE call.fn \in {"createTimeSlot", "createTag", "createDomain"} -> "create"
      [] call.fn \in {"deleteTimeSlot", "deleteTag", "deleteDomain"} -> "delete"
      [] call.fn = "upsertDailyLog" -> IF call.had THEN "update" ELSE "create"
      [] OTHER -> "update"

\* the outbox positions the last call filled, and those naming its own target
NewEvents == {k \in 1..Len(outbox) : k > lastCall.n0}
OwnEvents == {k \in NewEvents : outbox[k].entityId = lastCall.id}

\* the last call added exactly one pending event of its own, naming the entity
\* id and the operation, beside one event per nested helper call
RecordedOnce ==
    /\ Len(outbox) = lastCall.n0 + 1 + lastCall.nested
    /\ Cardinality(OwnEvents) = 1
    /\ \A k \in OwnEvents : /\ outbox[k].entity = lastCall.entity
                            /\ outbox[k].operation = OperationOf(lastCall)
                            /\ outbox[k].status = "pending"

CallReturned == lastCall.fn \notin {"none", "off"} /\ lastCall.ok

\* C2 as stated: every create, update or delete helper call that returns
\* without an error, a delete of an absent id included, has added exactly one
\* pending outbox event naming the entity id and the operation.
OutboxCompleteness == CallReturned => RecordedOnce

\* C2, amended: a helper call that returns without an error has added exactly
\* one pending outbox event naming the entity id and the operation, unless it
\* was a delete (or an archive, unarchive) of an id that is not in the table:
\* that call returns without an error and adds no event.
OutboxCompletenessOfPresent ==
    CallReturned =>
        IF lastCall.fn \in SilentOnAbsent /\ ~lastCall.had
        THEN Len(outbox) = lastCall.n0
        ELSE RecordedOnce

\* a delete of a tag on one time slot returned: the tag's delete event and the
\* slot's nested event are in the outbox
DeleteTagReturned ==
    /\ lastCall.fn = "deleteTag"
    /\ lastCall.ok /\ lastCall.had
    /\ lastCall.nested = 1
    /\ RecordedOnce

----------------------------------------------------------------------------
(* Properties of syncPull (SpecPull, SpecFixedNet) *)

\* an outbox event of this entity id is not synced yet
HasUnsynced(id) ==
    \E k \in 1..Len(outbox) : /\ outbox[k].entityId = id
                              /\ outbox[k].status # "synced"

\* the remote row the pull is at, as a local entity, and its table
PullKind == Kinds[pull.k]
PullRow == mapServerToLocal(PullKind, pull.data[pull.i])

\* the steps of the pull on one row: the precondition check, the write
PullChecks == pull.pc = "check" /\ pull' # pull
PullApplies == pull.pc = "apply" /\ pull' # pull
\* the pull is through with the row it is at
PullLeavesRow == (PullChecks \/ PullApplies) /\ pull'.pc # "apply"

\* C1: when the pull reaches a remote row whose entity id has an outbox event
\* that is pending, syncing or failed, it skips the row: the local row, the
\* conflict log and the pulled count stay as they were.
PullPrecedence ==
    [][PullChecks /\ HasUnsynced(PullRow.id)
          => /\ pull'.pc # "apply"
             /\ pull'.pulled = pull.pulled
             /\ pull'.conflicts = pull.conflicts
             /\ db' = db
             /\ conflicts' = conflicts]_vars

\* a pull went through its rows and skipped the one of a time slot that is
\* held locally with an unsynced event
RowSkipped ==
    /\ hist.skipped
    /\ pull.pc = "finish"
    /\ pull.pulled = 0
    /\ Has(db.timeslots, SlotId(1))
    /\ HasUnsynced(SlotId(1))

\* the cursor a row of syncState carries
CursorOf(st) ==
    IF Has(st, "sync_cursor") THEN Get(st["sync_cursor"], "lastPullCursor") ELSE UNDEF

\* C4 as stated: for one owner the pull cursor, once set, is never lost and
\* never moves backward, whatever pushes and local edits happen; a pull that
\* pulled no row leaves it exactly as it was.
CursorMonotonicity ==
    [][/\ Truthy(CursorOf(syncState))
          => Truthy(CursorOf(syncState')) /\ CursorOf(syncState') >= CursorOf(syncState)
       /\ pull.pc = "finish" /\ pull' # pull /\ pull.pulled = 0
          => CursorOf(syncState') = CursorOf(syncState)]_vars

\* C5 as stated: once the pull is through with a remote row that carries a
\* deletion time, no local row of that id is left, whatever the local state
\* was, outbox events of any status included.
TombstoneTerminality ==
    [][PullLeavesRow /\ Truthy(PullRow.deletedAt)
          => ~Has(db'[PullKind], PullRow.id)]_vars

\* C5, amended: once the pull is through with a remote row that carries a
\* deletion time, no local row of that id is left, unless the row was skipped
\* for an unsynced outbox event of that id: then the local rows stay as they
\* were.
TombstoneTerminalityUnlessUnsynced ==
    [][PullLeavesRow /\ Truthy(PullRow.deletedAt)
          => IF PullChecks
             THEN HasUnsynced(PullRow.id) /\ db' = db
             ELSE ~Has(db'[PullKind], PullRow.id)]_vars

\* a pull applied the tombstone of a time slot this device had edited: the
\* slot's events are synced and its local row is gone
TombstoneApplied ==
    /\ pull.pulled = 1
    /\ \E k \in 1..Len(outbox) : outbox[k].entityId = SlotId(1)
    /\ ~HasUnsynced(SlotId(1))
    /\ ~Has(db.timeslots, SlotId(1))
    /\ \E key \in DOMAIN remote.timeslots :
          key[1] = SlotId(1) /\ remote.timeslots[key].deleted_at # NULL

\* C6: when the pull writes a remote row without a deletion time over an
\* entity of which it read a local copy and found no unsynced outbox event,
\* the local row becomes the mapped remote row; one conflict record with the
\* local copy read and the remote row is appended, and the conflicts count goes
\* up by one, if and only if the updatedAt of the local copy was greater than
\* the remote one.
RemoteWinsWithAudit ==
    [][PullApplies /\ Falsy(PullRow.deletedAt) /\ pull.existing # <<>>
          => LET local == pull.existing[1]
             IN  /\ db'[PullKind][PullRow.id] = PullRow
                 /\ IF local.updatedAt > PullRow.updatedAt
                    THEN /\ Len(conflicts') = Len(conflicts) + 1
                         /\ SubSeq(conflicts', 1, Len(conflicts)) = conflicts
                         /\ conflicts'[Len(conflicts')].entityId = PullRow.id
                         /\ conflicts'[Len(conflicts')].localVersion = local
                         /\ conflicts'[Len(conflicts')].serverVersion = PullRow
                         /\ pull'.conflicts = pull.conflicts + 1
                    ELSE /\ conflicts' = conflicts
                         /\ pull'.conflicts = pull.conflicts]_vars

\* a pull overwrote a newer local time slot and logged the conflict
ConflictLogged ==
    /\ Len(conflicts) = 1
    /\ pull.conflicts = 1
    /\ Has(db.timeslots, SlotId(1))
    /\ db.timeslots[SlotId(1)] = conflicts[1].serverVersion
    /\ conflicts[1].localVersion.updatedAt > conflicts[1].serverVersion.updatedAt

\* C10 as stated: a syncPush or syncPull called while nobody is signed in or
\* the network is down returns zero counts and changes nothing: the outbox,
\* the entity tables, the cursor row, the conflict log and the remote stay as
\* they were.  (SpecFixedNet: the user and the network are as at the call.)
SyncGating ==
    [][(curUser = NULL \/ ~online) /\ (push' # push \/ pull' # pull)
          => /\ outbox' = outbox
             /\ db' = db
             /\ syncState' = syncState
             /\ conflicts' = conflicts
             /\ remote' = remote
             /\ push'[1].success = 0 /\ push'[1].failed = 0
             /\ pull'.pulled = 0 /\ pull'.conflicts = 0]_vars

----------------------------------------------------------------------------
(* Properties of syncPush (SpecPush, SpecOverlap) *)

\* a push run still has the event in the part of its batch it has not tried
StillToTry(p, id) ==
    /\ push[p].pc \in {"mark", "send"}
    /\ \E j \in push[p].i..Len(push[p].batch) : push[p].batch[j].id = id

\* C3 as stated: an outbox event whose push failed MAX_RETRY_COUNT times has
\* status failed and that retryCount, and no push run tries it again.
RetryCap ==
    \A k \in 1..Len(outbox) :
        CountOf(hist.fails, outbox[k].id) >= MAX_RETRY_COUNT
           => /\ outbox[k].status = "failed"
              /\ outbox[k].retryCount = MAX_RETRY_COUNT
              /\ CountOf(hist.fails, outbox[k].id) = MAX_RETRY_COUNT
              /\ \A p \in PushRuns : ~StillToTry(p, outbox[k].id)

\* the events of a run's batch that the run is through with
Handled(p) ==
    IF push[p].pc = "finish" THEN 1..Len(push[p].batch)
    ELSE IF push[p].pc \in {"mark", "send"} THEN 1..(push[p].i - 1)
    ELSE {}

\* C11: within one syncPush batch a remote failure on one event does not stop
\* the batch: when the loop is over every selected event was attempted; a
\* failed one has status failed, retryCount one above the selected one and
\* lastError set, a pushed one has status synced and syncedAt set, and the
\* success and failed counts add up to the number of events selected.
PushFailureIsolation ==
    /\ \A j \in Handled(1) :
          LET event == EventById(outbox, push[1].batch[j].id)
          IN  \/ /\ event.status = "synced"
                 /\ Truthy(Get(event, "syncedAt"))
              \/ /\ event.status = "failed"
                 /\ event.retryCount = push[1].batch[j].retryCount + 1
                 /\ Truthy(Get(event, "lastError"))
    /\ push[1].pc # "idle" => push[1].success + push[1].failed = Cardinality(Handled(1))
    /\ push[1].pc = "finish" => push[1].success + push[1].failed = Len(push[1].batch)

\* a batch of two events is over: one failed, the other was pushed after it
OneFailedOnePushed ==
    /\ push[1].pc = "finish"
    /\ Len(push[1].batch) = 2
    /\ EventById(outbox, push[1].batch[1].id).status = "failed"
    /\ EventById(outbox, push[1].batch[2].id).status = "synced"

\* run p takes the step that sends the event with id to the remote
Sends(p, id) ==
    /\ push[p].pc = "send"
    /\ push[p].batch[push[p].i].id = id
    /\ push'[p] # push[p]

\* the event with id was sent before under the owner of run p, and the remote
\* row of its entity is still what that send left
SentBefore(p, id) ==
    /\ id \in DOMAIN hist.sent
    /\ hist.sent[id].user = push[p].user
    /\ hist.sent[id].row = RemoteRowOf(remote, EventById(outbox, id), push[p].user)

\* C12: sending an event a second time (a retry after a lost answer, or the
\* same event picked by two push runs), with no other event of that entity
\* pushed in between, leaves the remote exactly as the first send left it: the
\* same rows with the same field values, none added.
RepeatedPushIsSafe ==
    [][\A p \in PushRuns, k \in 1..Len(outbox) :
          Sends(p, outbox[k].id) /\ SentBefore(p, outbox[k].id) => remote' = remote]_vars

\* an event whose first answer was lost was sent again and acknowledged, and no
\* other event was sent
SentTwice ==
    \E k \in 1..Len(outbox) :
       /\ CountOf(hist.fails, outbox[k].id) = 1
       /\ outbox[k].status = "synced"
       /\ DOMAIN hist.sent = {outbox[k].id}

\* the remote rows of one kind that belong to an owner
RowsOfOwner(entity, userId) ==
    {remote[entity][k] : k \in {x \in DOMAIN remote[entity] : x[2] = userId}}

EventsOf(id) == {k \in 1..Len(outbox) : outbox[k].entityId = id}
LastEventOf(id) == outbox[CHOOSE k \in EventsOf(id) : \A j \in EventsOf(id) : j <= k]

\* the remote row is what the event dictates
Dictates(event, tbl) ==
    LET key == <<event.entityId, curUser>>
    IN  /\ key \in DOMAIN tbl
        /\ IF event.operation = "delete"
           THEN tbl[key].deleted_at = toISOString(event.payload.deletedAt)
           ELSE tbl[key] = mapLocalToServer(event.entity,
                                            Spread(event.payload, [userId |-> curUser]))

\* C9 as stated: once every outbox event of one entity id is synced, the
\* remote row of that id is what the event created last dictates.
PerEntityOrdering ==
    \A id \in SlotIds :
        EventsOf(id) # {} /\ ~HasUnsynced(id)
           => Dictates(LastEventOf(id), remote[LastEventOf(id).entity])

----------------------------------------------------------------------------
(* Properties of the migration (SpecMigrate) *)

\* the migration starts, returns
MigrationStarts == mig.pc = "idle" /\ mig'.pc = "push"
MigrationReturns == mig.pc = "wait" /\ mig'.pc = "idle"

\* C7: a migration called again with no helper call since the last one went
\* through the tables stamps no row, adds no outbox event and returns 0.
IdempotentMigration ==
    [][/\ MigrationStarts /\ mig'.again
          => db' = db /\ outbox' = outbox /\ mig'.count = 0
       /\ MigrationReturns /\ mig.again
          => mig'.ret = 0]_vars

\* a second migration returned 0 after the first had migrated a row
MigratedTwice ==
    /\ mig.pc = "idle"
    /\ mig.calls = 2
    /\ mig.again
    /\ mig.ret = 0
    /\ \E k \in 1..Len(outbox) : IsMigrateId(outbox[k].id)

\* the rows of the four collections that lack an owner, as <<kind, id>> pairs
Ownerless(d) ==
    {x \in KindSet \X (UNION {DOMAIN d[e] : e \in KindSet}) :
        x[2] \in DOMAIN d[x[1]] /\ Anonymous(d[x[1]][x[2]])}

\* the events a step adds for one entity
AddedFor(entity, entityId) ==
    {k \in 1..Len(outbox') :
        /\ \A j \in 1..Len(outbox) : outbox[j].id # outbox'[k].id
        /\ outbox'[k].entity = entity
        /\ outbox'[k].entityId = entityId}

\* the step of a migration that stamps the rows and adds their events: one
\* create event per ownerless row, carrying the new owner, and no other event
MigrationStamps ==
    /\ \A x \in Ownerless(db) :
          /\ Cardinality(AddedFor(x[1], x[2])) = 1
          /\ \A k \in AddedFor(x[1], x[2]) :
                /\ outbox'[k].operation = "create"
                /\ Get(outbox'[k].payload, "userId") = mig'.user
    /\ Len(outbox') = Len(outbox) + Cardinality(Ownerless(db))
    /\ mig'.count = Cardinality(Ownerless(db))

\* C14: after migrateLocalToCloud(ownerId) returns no entity of the four
\* collections lacks an owner; for each entity that lacked one exactly one
\* create event with its id and the new owner in the payload was added; the
\* returned count is the number of such entities; a push was invoked after the
\* events were added.
MigrationOnLogin ==
    [][/\ MigrationStarts => MigrationStamps
       /\ MigrationReturns
          => /\ mig'.ret = mig.count
             /\ mig.run \in PushRuns
             /\ Ownerless(db') = {}]_vars

----------------------------------------------------------------------------
(* Properties of the list helpers (SpecCrud) *)

\* the rows the list and query helpers return, over every argument
Listed ==
    UNION ({getAllTags(db), getArchivedTags(db), getAllDomains(db),
            getArchivedDomains(db), getAllDailyLogs(db)}
           \cup {getTimeSlotsByRange(db, a, b) : a \in 0..(MaxTime + 1), b \in 0..(MaxTime + 1)}
           \cup {getTagsByDomain(db, DomainId(1))}
           \cup {getDailyLog(db, date) : date \in 0..MaxTime})

\* the soft-deleted rows of the local tables, as <<kind, id>> pairs
SoftDeleted ==
    {x \in KindSet \X (UNION {DOMAIN db[e] : e \in KindSet}) :
        x[2] \in DOMAIN db[x[1]] /\ Truthy(Get(db[x[1]][x[2]], "deletedAt"))}

\* C15: no list or query helper returns an entity whose deletedAt is set, while
\* the row stays in its table, where a get by id finds it: a delete helper that
\* returned left the row in place with deletedAt set.
SoftDeleteVisibility ==
    /\ \A row \in Listed : Falsy(Get(row, "deletedAt"))
    /\ \A x \in SoftDeleted : \A row \in Listed : row.id # x[2]
    /\ /\ lastCall.fn \in {"deleteTimeSlot", "deleteTag", "deleteDomain"}
       /\ lastCall.had /\ lastCall.ok
       => <<lastCall.entity, lastCall.id>> \in SoftDeleted

\* a tag was soft-deleted: its row is in the table and no list shows it
TagSoftDeleted ==
    /\ lastCall.fn = "deleteTag"
    /\ <<"tags", lastCall.id>> \in SoftDeleted
    /\ getAllTags(db) = {}

----------------------------------------------------------------------------
(* Properties of deleteTag (SpecCascade) *)

\* the step is a deleteTag call on a tag that is in the table
DeletesTag ==
    /\ lastCall'.fn = "deleteTag"
    /\ lastCall'.had
    /\ Len(outbox') > Len(outbox)

\* the non-deleted time slots that reference tag t
Referencing(d, t) ==
    {i \in DOMAIN d.timeslots : /\ Falsy(Get(d.timeslots[i], "deletedAt"))
                                /\ Includes(d.timeslots[i].tagIds, t)}

\* C16: deleteTag(t) on an existing tag strips t from every non-deleted time
\* slot that references it: a slot left with no tag is soft-deleted, any other
\* is updated with the remaining ids; afterwards no non-deleted slot references
\* t and the tag is soft-deleted; the new events are one delete for the tag and
\* one delete or update per affected slot; the other slots are unchanged and
\* get no event.
TagDeletionCascade ==
    [][DeletesTag =>
         LET t == lastCall'.id
             affected == Referencing(db, t)
         IN  /\ DOMAIN db'.timeslots = DOMAIN db.timeslots
             /\ \A i \in affected :
                   LET remaining == Without(db.timeslots[i].tagIds, t)
                   IN  /\ IF remaining = <<>>
                          THEN Truthy(Get(db'.timeslots[i], "deletedAt"))
                          ELSE /\ db'.timeslots[i].tagIds = remaining
                               /\ Falsy(Get(db'.timeslots[i], "deletedAt"))
                       /\ Cardinality(AddedFor("timeslots", i)) = 1
                       /\ \A k \in AddedFor("timeslots", i) :
                             outbox'[k].operation =
                                IF remaining = <<>> THEN "delete" ELSE "update"
             /\ Referencing(db', t) = {}
             /\ Truthy(Get(db'.tags[t], "deletedAt"))
             /\ Cardinality(AddedFor("tags", t)) = 1
             /\ \A k \in AddedFor("tags", t) : outbox'[k].operation = "delete"
             /\ Len(outbox') = Len(outbox) + 1 + Cardinality(affected)
             /\ \A i \in DOMAIN db.timeslots \ affected :
                   /\ db'.timeslots[i] = db.timeslots[i]
                   /\ AddedFor("timeslots", i) = {}]_vars

\* a tag on two time slots was deleted: the slot that held only this tag is
\* soft-deleted, the slot that held another tag too keeps that one
CascadedOverTwo ==
    /\ lastCall.fn = "deleteTag"
    /\ lastCall.nested = 2
    /\ \E i \in DOMAIN db.timeslots, j \in DOMAIN db.timeslots :
          /\ Truthy(Get(db.timeslots[i], "deletedAt"))
          /\ Falsy(Get(db.timeslots[j], "deletedAt"))
          /\ db.timeslots[j].tagIds = <<TagId(2)>>

----------------------------------------------------------------------------
(* Properties of the failing helper calls (SpecCrud) *)

\* the step is a call of helper fn
Calls(fn) == lastCall'.fn = fn /\ lastCall' # lastCall

\* the tags of domain d that are not soft-deleted, archived ones included
LiveTagsOf(d) ==
    {i \in DOMAIN db.tags : /\ db.tags[i].domainId = d
                            /\ Falsy(Get(db.tags[i], "deletedAt"))}

\* the call wrote no row and added no event
NothingPersisted == db' = db /\ outbox' = outbox

\* C17 as stated: deleteDomain(d) fails with an error whenever a tag with
\* domainId d and no deletedAt exists, and then nothing is persisted.
DomainDeletionGuard ==
    [][Calls("deleteDomain") /\ LiveTagsOf(lastCall'.id) # {}
          => ~lastCall'.ok /\ NothingPersisted]_vars

\* C17, amended: deleteDomain(d) on a domain that is in the table fails with an
\* error whenever a tag with domainId d and no deletedAt exists (archived tags
\* included), and nothing is persisted: the domain row is as it was and no
\* outbox event is added.  On an id that is not in the table the call returns
\* without an error, whatever tags name that id, and persists nothing.
DomainDeletionGuardOfPresent ==
    [][Calls("deleteDomain") /\ LiveTagsOf(lastCall'.id) # {}
          => /\ lastCall'.ok = ~lastCall'.had
             /\ NothingPersisted]_vars

\* deleteDomain failed on a domain that has a live tag; the domain is not deleted
DeleteDomainRefused ==
    /\ lastCall.fn = "deleteDomain"
    /\ lastCall.had
    /\ ~lastCall.ok
    /\ LiveTagsOf(lastCall.id) # {}
    /\ Falsy(Get(db.domains[lastCall.id], "deletedAt"))

\* C18: updateTimeSlot, updateTag and updateDomain called with an id that has
\* no local row fail with an error, write no entity row and add no outbox event.
UpdateOfAbsent ==
    [][\A fn \in {"updateTimeSlot", "updateTag", "updateDomain"} :
          Calls(fn) /\ ~lastCall'.had => ~lastCall'.ok /\ NothingPersisted]_vars

\* an update of a time slot that is not in the table has failed
UpdateRefused ==
    /\ lastCall.fn = "updateTimeSlot"
    /\ ~lastCall.had
    /\ ~lastCall.ok
    /\ ~Has(db.timeslots, lastCall.id)

\* two names are the same when case is ignored (name 1 is a capitalised
\* spelling of name 2)
SameIgnoringCase(a, b) == a = b \/ {a, b} = {1, 2}

\* the live rows of a table that a row with that id would duplicate by name;
\* tags are compared within their domain
Duplicated(d, entity, row) ==
    {i \in DOMAIN d[entity] \ {row.id} :
        /\ Falsy(Get(d[entity][i], "deletedAt"))
        /\ SameIgnoringCase(d[entity][i].name, row.name)
        /\ entity = "tags" => d[entity][i].domainId = row.domainId}

\* C19: createTag fails when a non-deleted tag of the same domain has the same
\* name ignoring case, createDomain fails when a non-deleted domain has the
\* same name ignoring case, and the failure comes before any write: a create
\* that returns has added a row that duplicates no row that was there, and a
\* create that fails has written no row and added no event.
DuplicateNameOnCreate ==
    [][\A fn \in {"createTag", "createDomain"} :
          Calls(fn)
          => IF lastCall'.ok
             THEN /\ Has(db'[lastCall'.entity], lastCall'.id)
                  /\ Duplicated(db, lastCall'.entity,
                                db'[lastCall'.entity][lastCall'.id]) = {}
             ELSE NothingPersisted]_vars

\* a createTag has failed while a live tag is in the table and no second tag
\* row was written
DuplicateTagRefused ==
    /\ lastCall.fn = "createTag"
    /\ ~lastCall.ok
    /\ ~Has(db.tags, lastCall.id)
    /\ \E i \in DOMAIN db.tags : Falsy(Get(db.tags[i], "deletedAt"))

----------------------------------------------------------------------------
(* Properties of the entity mapper (SpecMapper) *)

\* the timestamp columns of a remote row
StampColumns == {"created_at", "updated_at", "deleted_at", "start_time", "end_time"}
AtMs(v) == IF v = NULL THEN NULL ELSE getTime(v)

\* two remote rows equal column by column, timestamps taken to the millisecond
SameRow(a, b) ==
    \A f \in DOMAIN a \cup DOMAIN b :
        IF f \in StampColumns /\ f \in DOMAIN a /\ f \in DOMAIN b
        THEN AtMs(a[f]) = AtMs(b[f])
        ELSE Get(a, f) = Get(b, f)

\* C8 as stated: local -> remote -> local gives the entity back field by field
\* and remote -> local -> remote gives the row back, for each kind and any
\* combination of optional fields.
MapperRoundTrip ==
    /\ mapper.phase = "localAgain" => SameFields(mapper.back, mapper.local)
    /\ mapper.phase = "rowAgain" => SameRow(mapper.back, mapper.row)

----------------------------------------------------------------------------
(* Properties of the sync loop (SpecLoopFair) *)

\* the step begins exactly one cycle: one idle record stands at its gate
\* after it, the other records are as they were
BeginsOneCycle ==
    \E c \in PushRuns :
        /\ loop.cyc[c] = "idle"
        /\ loop'.cyc[c] = "gate"
        /\ \A x \in PushRuns \ {c} : loop'.cyc[x] = loop.cyc[x]

\* a cycle's steps in their order: the gate, syncPush, then syncPull once
\* syncPush has returned, then the end
PushThenPull(c) ==
    /\ loop'.cyc[c] = "push" /\ loop.cyc[c] # "push"
          => loop.cyc[c] = "gate" /\ push[c].pc = "idle"
    /\ loop'.cyc[c] = "pull" /\ loop.cyc[c] # "pull"
          => loop.cyc[c] = "push" /\ push[c].pc = "idle" /\ pull'.pc # "idle"
    /\ loop'.cyc[c] = "idle" /\ loop.cyc[c] = "pull" => pull.pc = "idle"

\* C20: startSyncLoop begins one push-then-pull cycle at once, every timer
\* tick and every online event of a started loop begins one more; once the
\* stop function has been called no cycle begins, from the timer or from an
\* online event, the stop itself touches no running cycle, and every cycle
\* running then goes on to its end
SyncLoopLifecycle ==
    /\ [][/\ StartSyncLoop => BeginsOneCycle
          /\ TimerTick => BeginsOneCycle
          /\ GoOnline /\ loop.listener => BeginsOneCycle
          /\ \A c \in PushRuns : PushThenPull(c)
          /\ loop.stopped => \A c \in PushRuns :
                                 loop.cyc[c] = "idle" => loop'.cyc[c] = "idle"
          /\ loop.stopped => ~ENABLED TimerTick
          /\ loop'.stopped /\ ~loop.stopped => loop'.cyc = loop.cyc]_vars
    /\ loop.stopped ~> (\A c \in PushRuns : loop.cyc[c] = "idle")

\* the loop was stopped with the connection down and a cycle running; the
\* connection has come back since, that cycle has pushed an event, pulled
\* and ended, and no cycle has begun though one more could have
StoppedCycleCompleted ==
    /\ loop.stopped
    /\ loop.atStop # {}
    /\ loop.offAtStop /\ online
    /\ loop.begun < MaxCycles
    /\ \A c \in PushRuns : loop.cyc[c] = "idle"
    /\ \E c \in loop.atStop : push[c].success > 0
    /\ syncState # <<>>

----------------------------------------------------------------------------
(* Properties of failing pulls (SpecFaults) *)

\* a failed query costs its kind only: the next kind is queried, or after the
\* last kind the cursor update follows; the counts and the cursor read at the
\* start are kept
QueryFailureConfined ==
    PullQueryThrows =>
        /\ pull.k < Len(Kinds) => pull'.pc = "query" /\ pull'.k = pull.k + 1
        /\ pull.k = Len(Kinds) => pull'.pc = "finish"
        /\ pull'.pulled = pull.pulled /\ pull'.conflicts = pull.conflicts
        /\ pull'.user = pull.user /\ pull'.cursor = pull.cursor

\* a failed row costs that row only: the next row of the same answer is
\* processed, or after the last row the next kind
RowFailureConfined ==
    PullRowThrows =>
        /\ pull.i < Len(pull.data)
              => /\ pull'.pc = "check" /\ pull'.i = pull.i + 1
                 /\ pull'.k = pull.k /\ pull'.data = pull.data
        /\ pull.i = Len(pull.data) /\ pull.k < Len(Kinds)
              => pull'.pc = "query" /\ pull'.k = pull.k + 1
        /\ pull.i = Len(pull.data) /\ pull.k = Len(Kinds) => pull'.pc = "finish"
        /\ pull'.pulled = pull.pulled /\ pull'.conflicts = pull.conflicts
        /\ pull'.user = pull.user /\ pull'.cursor = pull.cursor

\* C21: a failed pull query and a failed row are confined to their kind and
\* their row: the remaining rows and kinds are still processed, syncPull
\* reaches its cursor update only after the last kind and always returns,
\* and every cycle of the loop ends
PullFailureIsolation ==
    /\ [][/\ QueryFailureConfined
          /\ RowFailureConfined
          /\ pull'.pc = "finish" /\ pull.pc # "finish" => pull.k = Len(Kinds)
          /\ pull'.pc = "idle" /\ pull.pc # "idle"
                => /\ Has(syncState', "sync_cursor")
                   /\ syncState'["sync_cursor"].userId = pull.user]_vars
    /\ pull.pc # "idle" ~> pull.pc = "idle"
    /\ \A c \in PushRuns : loop.cyc[c] # "idle" ~> loop.cyc[c] = "idle"

\* the first of two time slot rows failed in the only cycle so far; the
\* second row and the tag were stored, syncPull returned with a count of two
\* and the cycle ended
RowFailedOthersPulled ==
    /\ hist.fault = <<1, 1>>
    /\ loop.begun = 1
    /\ \A c \in PushRuns : loop.cyc[c] = "idle"
    /\ pull.pc = "idle" /\ pull.pulled = 2
    /\ ~Has(db.timeslots, SlotId(1)) /\ Has(db.timeslots, SlotId(2))
    /\ Has(db.tags, TagId(1))
    /\ Has(syncState, "sync_cursor")

----------------------------------------------------------------------------
(* Properties of the outbox events under overlapping pushes (SpecOverlap) *)

\* the status changes of an event
StatusSteps ==
    {<<"pending", "syncing">>, <<"failed", "syncing">>,
     <<"syncing", "synced">>, <<"syncing", "failed">>}

\* C22 as stated: in every interleaving of push runs the status of every
\* outbox event changes only along pending -> syncing, failed -> syncing,
\* syncing -> synced and syncing -> failed (so a synced event keeps its
\* status), and retryCount never decreases and never exceeds 5.
EventStatusMachine ==
    [][\A k \in 1..Len(outbox) :
          /\ k <= Len(outbox') /\ outbox'[k].id = outbox[k].id
          /\ \/ outbox'[k].status = outbox[k].status
             \/ <<outbox[k].status, outbox'[k].status>> \in StatusSteps
          /\ outbox'[k].retryCount >= outbox[k].retryCount
          /\ outbox'[k].retryCount <= MAX_RETRY_COUNT]_vars

\* the ids of the events the selection query takes, and those of a batch
SelectableIds(o) == {o[k].id : k \in {j \in 1..Len(o) : Selectable(o[j])}}
BatchIds(r) == {r.batch[j].id : j \in 1..Len(r.batch)}

\* run p selects: at most 50 events, each pending or failed and below the
\* cap at that time, none twice, and all of them when there are at most 50
SelectsEligible(p) ==
    push[p].pc = "idle" /\ push'[p].pc # "idle" =>
        /\ Len(push'[p].batch) <= SYNC_BATCH_SIZE
        /\ Cardinality(BatchIds(push'[p])) = Len(push'[p].batch)
        /\ BatchIds(push'[p]) \subseteq SelectableIds(outbox)
        /\ Cardinality(SelectableIds(outbox)) <= SYNC_BATCH_SIZE
              => BatchIds(push'[p]) = SelectableIds(outbox)

\* run p attempts an event: it marks it syncing before the remote call
Attempts(p) == push[p].pc = "mark" /\ push'[p].pc = "send"

\* run p attempts the events of its batch, one after the other, to the last
AttemptsBatch(p) ==
    /\ Attempts(p) => push[p].i \in 1..Len(push[p].batch) /\ push'[p].batch = push[p].batch
    /\ push'[p].pc = "finish" /\ push[p].pc # "finish" => push[p].i = Len(push[p].batch)

\* C23 as stated: a syncPush past the owner gate attempts only events that
\* were pending or failed and below 5 retries at selection time, at most 50
\* per call and all of them when there are at most 50; no event that is
\* syncing or synced is ever attempted.
PushSelection ==
    [][\A p \in PushRuns :
          /\ SelectsEligible(p)
          /\ AttemptsBatch(p)
          /\ Attempts(p) =>
                EventById(outbox, push[p].batch[push[p].i].id).status
                    \notin {"syncing", "synced"}]_vars

\* the part of C23 about the selection and the batch alone
PushSelectionAtEntry ==
    [][\A p \in PushRuns : SelectsEligible(p) /\ AttemptsBatch(p)]_vars

----------------------------------------------------------------------------
(* Properties of the order of a batch (SpecOrder) *)

CreatedAt(id) == EventById(outbox, id).createdAt

\* C24 as stated: the events of one syncPush batch are sent one at a time in
\* the order of their creation, oldest first by createdAt, whether a helper
\* or the migration created them, and a batch that leaves eligible events
\* out holds the oldest ones.
PushOrder ==
    [][\A p \in PushRuns :
          /\ push[p].pc = "idle" /\ push'[p].pc # "idle" =>
                \A id \in SelectableIds(outbox) \ BatchIds(push'[p]) :
                    \A in \in BatchIds(push'[p]) : CreatedAt(in) <= CreatedAt(id)
          /\ Attempts(p) =>
                \A j \in 1..Len(push[p].batch) :
                    j < push[p].i =>
                        CreatedAt(push[p].batch[j].id) <= CreatedAt(push[p].batch[push[p].i].id)]_vars

----------------------------------------------------------------------------
(* Properties of the retention sweep (SpecSweep) *)

\* a soft-deleted row whose deletion is more than 7 days old
OldTombstone(row) ==
    Get(row, "deletedAt") # UNDEF /\ row.deletedAt + SEVEN_DAYS < now

\* the sweep deletes a row, purges the outbox, reads a table
SweepDeletes == sweep.pc = "delete" /\ sweep' # sweep
SweepPurges == sweep.pc = "outbox" /\ sweep' # sweep
SweepReads == sweep.pc = "scan" /\ sweep'.pc = "delete"

\* C27 as stated: cleanupOldDeletedRecords physically deletes exactly the
\* entities whose deletedAt is set and older than 7 days and exactly the
\* outbox events that are synced and were created more than 30 days ago; it
\* never removes an entity without deletedAt, a more recently soft-deleted
\* entity, or an outbox event that is pending, syncing or failed, however old.
RetentionSweep ==
    [][/\ SweepReads =>
             {sweep'.ids[j] : j \in 1..Len(sweep'.ids)}
                = {id \in DOMAIN db[Kinds[sweep.k]] : OldTombstone(db[Kinds[sweep.k]][id])}
       /\ SweepDeletes =>
             \A kind \in KindSet :
                \A id \in DOMAIN db[kind] \ DOMAIN db'[kind] : OldTombstone(db[kind][id])
       /\ SweepPurges =>
             \A k \in 1..Len(outbox) :
                (\E j \in 1..Len(outbox') : outbox'[j] = outbox[k])
                   <=> ~(outbox[k].status = "synced"
                         /\ outbox[k].createdAt + THIRTY_DAYS < now)]_vars

\* the part of C27 that holds: what the sweep reads and purges is as stated,
\* and it deletes the rows it read and no other
RetentionSweepAsRead ==
    [][/\ SweepReads =>
             {sweep'.ids[j] : j \in 1..Len(sweep'.ids)}
                = {id \in DOMAIN db[Kinds[sweep.k]] : OldTombstone(db[Kinds[sweep.k]][id])}
       /\ SweepDeletes =>
             \A kind \in KindSet :
                DOMAIN db[kind] \ DOMAIN db'[kind]
                   \subseteq IF kind = Kinds[sweep.k] THEN {Head(sweep.ids)} ELSE {}
       /\ SweepPurges =>
             \A k \in 1..Len(outbox) :
                (\E j \in 1..Len(outbox') : outbox'[j] = outbox[k])
                   <=> ~(outbox[k].status = "synced"
                         /\ outbox[k].createdAt + THIRTY_DAYS < now)]_vars


----------------------------------------------------------------------------
(* Properties of the physical removal of rows (SpecSweep) *)

\* the pull applies a remote tombstone for the id
PullsTombstone(kind, id) ==
    /\ PullApplies
    /\ PullKind = kind
    /\ PullRow.id = id
    /\ Truthy(PullRow.deletedAt)

\* a delete helper ran: the outbox got a delete event
HelperDeletes ==
    /\ Len(outbox') = Len(outbox) + 1
    /\ outbox'[Len(outbox')].operation = "delete"

\* the fields of the row of the id that the step changed
ChangedFields(kind, id) ==
    {f \in DOMAIN db[kind][id] \cup DOMAIN db'[kind][id] :
        Get(db[kind][id], f) # Get(db'[kind][id], f)}

\* a row leaves the store by the sweep or by the tombstone of a pull only
RemovedBySweepOrPull ==
    \A kind \in KindSet :
       \A id \in DOMAIN db[kind] \ DOMAIN db'[kind] :
          \/ SweepDeletes
          \/ PullsTombstone(kind, id)

\* the rows the sweep removes were soft-deleted more than 7 days ago
SweepRemovesOld ==
    SweepDeletes =>
       \A kind \in KindSet :
          \A id \in DOMAIN db[kind] \ DOMAIN db'[kind] : OldTombstone(db[kind][id])

\* a delete helper sets deletedAt and updatedAt of the row and nothing else
HelperSetsDeleted ==
    HelperDeletes =>
       \A kind \in KindSet :
          \A id \in DOMAIN db[kind] \cap DOMAIN db'[kind] :
             ChangedFields(kind, id) \subseteq {"deletedAt", "updatedAt"}

\* C28 as stated: a row, once inserted, disappears from the local store only
\* through the retention sweep (deletedAt older than 7 days) or through a pull
\* that processed a remote tombstone for its id; every delete helper only sets
\* deletedAt and updatedAt on the existing row, and no push, migration or
\* update removes a row.
PhysicalRemoval ==
    [][RemovedBySweepOrPull /\ SweepRemovesOld /\ HelperSetsDeleted]_vars

\* the part of C28 that holds: no step but a delete of the sweep and the
\* tombstone of a pull removes a row
RemovalBySweepOrPull == [][RemovedBySweepOrPull]_vars

\* what the sweep does to C28: it removes a row that is not an old tombstone
RemovalOfOldOnly == [][SweepRemovesOld]_vars

\* what deleteTimeSlot does to C28: it writes a field besides the two
DeleteSetsTwoFields == [][HelperSetsDeleted]_vars


----------------------------------------------------------------------------
(* Properties of the gate of the sync loop (SpecLoop) *)

\* cycle c passes the test of runSync with no user or no connection
GatedCycle(c) ==
    /\ loop.cyc[c] = "gate"
    /\ loop'.cyc[c] # "gate"
    /\ (curUser = NULL \/ ~online)

\* C30: every cycle of the sync loop that finds no authenticated owner or finds
\* the network offline at its start performs neither a push nor a pull and
\* changes no outbox event, entity, sync cursor or conflict record: it returns
\* at its test.
GatedCycles ==
    [][\A c \in PushRuns :
          GatedCycle(c) => /\ loop'.cyc[c] = "idle"
                           /\ push' = push
                           /\ pull' = pull
                           /\ outbox' = outbox
                           /\ db' = db
                           /\ syncState' = syncState
                           /\ conflicts' = conflicts
                           /\ remote' = remote]_vars

\* a cycle of a signed-in user returned at its test, offline, while an event
\* waited in the outbox, which still waits, and no cycle runs
GatedCycleReturned ==
    /\ loop.gated
    /\ curUser # NULL
    /\ ~online
    /\ \A c \in PushRuns : loop.cyc[c] = "idle"
    /\ \E k \in 1..Len(outbox) : outbox[k].status = "pending"


----------------------------------------------------------------------------
(* Properties of the owner of a sync cycle (SpecCycleOwner) *)

\* cycle c goes from its push to its pull
CycleTurnsToPull(c) == loop.cyc[c] = "push" /\ loop'.cyc[c] = "pull"

\* the pull writes its row of syncState
PullWritesCursor == pull.pc = "finish" /\ pull'.pc = "idle"

\* the push of cycle c is entered for the owner the cycle found at its test,
\* and a running push keeps its owner
PushKeepsOwner(c) ==
    /\ loop.cyc[c] = "gate" /\ loop'.cyc[c] = "push" /\ push'[c].pc # "idle"
          => push'[c].user = loop'.owner[c]
    /\ push[c].pc # "idle" /\ push'[c].pc # "idle" => push'[c].user = push[c].user

\* C26 as stated: a sync cycle that began while owner A was authenticated
\* performs all of its remote reads and writes, and writes the sync cursor, for
\* owner A, even if the authenticated owner changes to B or to none while the
\* cycle is in progress: its push runs for A, its pull is entered for A, and
\* the cursor row is written for the owner of a cycle that is at its pull.
CycleKeepsOwner ==
    [][/\ \A c \in PushRuns :
             /\ PushKeepsOwner(c)
             /\ CycleTurnsToPull(c)
                   => pull'.pc = "query" /\ pull'.user = loop.owner[c]
       /\ PullWritesCursor
             => \E c \in PushRuns :
                   /\ loop.cyc[c] = "pull"
                   /\ syncState'["sync_cursor"].userId = loop.owner[c]]_vars

\* the part of C26 that holds: the push of a cycle runs for the owner the
\* cycle found at its test, and the pull writes the cursor row for the owner
\* it was entered with
CyclePushKeepsOwner ==
    [][/\ \A c \in PushRuns : PushKeepsOwner(c)
       /\ PullWritesCursor => syncState'["sync_cursor"].userId = pull.user]_vars

\* what a sign-in of another account between the push and the pull of a cycle
\* does to C26: the pull is entered for the other account
PullEnteredForOwner ==
    [][\A c \in PushRuns :
          CycleTurnsToPull(c) /\ pull'.pc = "query" => pull'.user = loop.owner[c]]_vars

\* the same for the cursor row
CursorWrittenForOwner ==
    [][PullWritesCursor
          => \E c \in PushRuns :
                /\ loop.cyc[c] = "pull"
                /\ syncState'["sync_cursor"].userId = loop.owner[c]]_vars


----------------------------------------------------------------------------
(* Properties of events of an unsupported kind (SpecUnsupported) *)

\* the event push run p is at
EventAt(p) == EventById(outbox, push[p].batch[push[p].i].id)

\* push run p is through with an event whose kind makes the mapper throw
MapperThrew(p) ==
    /\ push[p].pc = "send"
    /\ push'[p] # push[p]
    /\ EventAt(p).operation # "delete"
    /\ mapLocalToServerThrows(EventAt(p).entity)

\* C29 as stated: when the mapper is invoked with an entity kind outside the
\* four known kinds it raises an error, and that error is not swallowed by the
\* sync cycle: it reaches the caller of syncPush, so the run ends there, instead
\* of being recorded as an ordinary per-event failure.
UnsupportedFailsLoudly ==
    [][\A p \in PushRuns :
          MapperThrew(p)
             => /\ push'[p].pc = "idle"
                /\ EventById(outbox', EventAt(p).id).status # "failed"]_vars

\* what the code does: the throw of the mapper is caught like any failure of
\* the remote call: the event is marked failed with one more retry, nothing is
\* sent, and the run goes on to its next event or to its end
UnsupportedRecordedAsFailure ==
    [][\A p \in PushRuns :
          MapperThrew(p)
             => /\ push'[p].pc \in {"mark", "finish"}
                /\ push'[p].failed = push[p].failed + 1
                /\ EventById(outbox', EventAt(p).id).status = "failed"
                /\ EventById(outbox', EventAt(p).id).retryCount
                      = push[p].batch[push[p].i].retryCount + 1
                /\ remote' = remote]_vars


----------------------------------------------------------------------------
(* Properties of the content of the outbox events (SpecContent) *)

\* what an event says, as against how far its delivery is
ContentFields ==
    {"entity", "operation", "entityId", "payload", "idempotencyKey", "userId",
     "clientId", "createdAt"}
DeliveryFields == {"status", "retryCount", "lastError", "syncedAt"}

\* C25: after an outbox event has been added, no operation (push, pull,
\* migration, retention sweep, mutation helper) changes its entity kind,
\* operation, entityId, payload, idempotencyKey, owner, device or createdAt;
\* only status, retryCount, lastError and syncedAt change.
EventContentImmutable ==
    [][\A k \in 1..Len(outbox), j \in 1..Len(outbox') :
          outbox'[j].id = outbox[k].id
             => /\ ContentFields \subseteq DOMAIN outbox[k]
                /\ \A f \in (DOMAIN outbox[k] \cup DOMAIN outbox'[j]) \ DeliveryFields :
                      /\ f \in DOMAIN outbox[k] \cap DOMAIN outbox'[j]
                      /\ outbox'[j][f] = outbox[k][f]]_vars

\* a month later the sweep has purged the first event of the helpers, synced
\* on the first day, and a pull has run; the outbox still holds an event of
\* the migration that a push marked failed
ContentKept ==
    /\ now > 1
    /\ sweep.pc = "idle"
    /\ Has(syncState, "sync_cursor") /\ Get(syncState["sync_cursor"], "lastPullAt") = now
    /\ \A k \in 1..Len(outbox) : outbox[k].id # 1
    /\ \E k \in 1..Len(outbox) :
          /\ IsMigrateId(outbox[k].id)
          /\ outbox[k].status = "failed"
          /\ outbox[k].retryCount = 1


----------------------------------------------------------------------------
(* Properties of the outbox under a pull (SpecPull) *)

\* a step of syncPull: its entry, a query, a row, the cursor update
PullSteps == pull' # pull

\* C31: syncPull applies remote rows by writing the entity tables directly and
\* adds no outbox event, so a change received by a pull is never pushed back:
\* every step of a pull leaves the outbox, events and statuses, as it was.
PullDoesNotEcho == [][PullSteps => outbox' = outbox]_vars

\* a pull wrote the row another device pushed over a time slot this device
\* had created and pushed, whose event is still in the outbox, synced
PulledOverSynced ==
    /\ pull.pc = "finish"
    /\ pull.pulled = 1
    /\ Has(db.timeslots, SlotId(1))
    /\ db.timeslots[SlotId(1)].clientId = OtherClientId
    /\ Len(outbox) = 1
    /\ outbox[1].status = "synced"


----------------------------------------------------------------------------
(* Properties of the syncState row under a push (SpecPull) *)

\* push run p writes its row of syncState and returns
PushWritesState(p) == push[p].pc = "finish" /\ push'[p].pc = "idle"

\* C32 as stated: in the sync cursor row a syncPush changes only lastPushAt;
\* lastPullCursor and lastPullAt hold the same values after the push as before
\* it, so a pull that follows continues from the cursor of the previous pull.
PushLeavesPullCursor ==
    [][\A p \in PushRuns :
          PushWritesState(p)
             => /\ Get(SyncCursorRow', "lastPullCursor") = Get(SyncCursorRow, "lastPullCursor")
                /\ Get(SyncCursorRow', "lastPullAt") = Get(SyncCursorRow, "lastPullAt")]_vars

\* what the code does: the push puts a whole new row, which carries the time
\* of the push and the user and nothing of the pull
PushReplacesState ==
    [][\A p \in PushRuns :
          PushWritesState(p)
             => /\ SyncCursorRow'.lastPushAt = now
                /\ SyncCursorRow'.userId = push[p].user
                /\ Get(SyncCursorRow', "lastPullCursor") = UNDEF
                /\ Get(SyncCursorRow', "lastPullAt") = UNDEF]_vars


----------------------------------------------------------------------------
(* Properties of a pull beside a local mutation (SpecPull) *)

\* C33 as stated: a local mutation of an entity that commits after syncPull
\* has read the local copy and run the precondition check for the entity's
\* remote row, but before the pull writes or deletes the row, is not
\* overwritten or physically deleted by that pull: the write of a row whose
\* entity has an unsynced event by then leaves the tables as they are.
NoCheckThenWriteRace ==
    [][PullApplies /\ HasUnsynced(PullRow.id) => db' = db]_vars

\* what the code does: the write goes by what the check saw; the local copy
\* read at the check decides between create and update and feeds the conflict
\* test, and the outbox is not read again
WriteGoesByCheck ==
    [][PullApplies
          => db'[PullKind] = ApplyRow(db[PullKind], pull.existing, PullRow)]_vars


----------------------------------------------------------------------------
(* Properties of the owner of a pushed event (SpecAccounts) *)

\* push run p selects its batch
PushSelects(p) == push[p].pc = "idle" /\ push'[p].pc = "mark"

\* push run p writes the event it is at to the remote
PushWritesRemote(p) == push[p].pc = "send" /\ remote' # remote

\* C34 as stated: an outbox event recorded with owner A is written to the
\* remote only under owner A; a syncPush running while a different owner B is
\* authenticated neither selects that event nor writes its payload to the
\* remote as a row of B.
NoCrossOwnerPush ==
    [][\A p \in PushRuns :
          /\ PushSelects(p)
                => \A j \in 1..Len(push'[p].batch) :
                      LET event == EventById(outbox, push'[p].batch[j].id)
                      IN  Truthy(event.userId) => event.userId = push'[p].user
          /\ PushWritesRemote(p)
                => (Truthy(EventAt(p).userId) => EventAt(p).userId = push[p].user)]_vars

\* what the code does: whatever owner the event was recorded with, the row it
\* leaves at the remote is a row of the user the run was entered with
PushedUnderRunUser ==
    [][\A p \in PushRuns :
          PushWritesRemote(p)
             => LET event == EventAt(p)
                    key == <<event.entityId, push[p].user>>
                IN  /\ key \in DOMAIN remote'[event.entity]
                    /\ remote'[event.entity][key].user_id = push[p].user
                    /\ \A other \in DOMAIN remote'[event.entity] \ {key} :
                          /\ other \in DOMAIN remote[event.entity]
                          /\ remote'[event.entity][other] = remote[event.entity][other]]_vars


----------------------------------------------------------------------------
(* Properties of the cursor a pull stores (SpecCursor) *)

\* the local store does not show the remote row
Unapplied(kind, row) ==
    LET localEntity == mapServerToLocal(kind, row)
    IN  IF Truthy(localEntity.deletedAt) THEN Has(db[kind], localEntity.id)
        ELSE ~Has(db[kind], localEntity.id) \/ db[kind][localEntity.id] # localEntity

\* a pull of the user with this cursor fetches the row
Fetched(kind, row, userId, cursor) ==
    \E j \in 1..Len(QueryRows(remote[kind], userId, cursor)) :
       QueryRows(remote[kind], userId, cursor)[j] = row

\* the rows of the pulling user the local store does not show
UnappliedRows(kind) ==
    {key \in DOMAIN remote[kind] :
        key[2] = pull.user /\ Unapplied(kind, remote[kind][key])}

\* C35 as stated: a pull does not advance lastPullCursor past a remote row it
\* did not apply: when a row was not applied because its kind's query failed,
\* its row processing failed or the precondition check skipped it, while
\* another row was pulled, a later pull still fetches it.
CursorNeverSkips ==
    [][PullWritesCursor
          => \A kind \in KindSet :
                \A key \in UnappliedRows(kind) :
                   Fetched(kind, remote[kind][key], pull.user, CursorOf(syncState'))]_vars

\* the part of C35 that holds: a pull that pulled no row stores the cursor it
\* read at its start
CursorKeptWhenNothingPulled ==
    [][PullWritesCursor /\ pull.pulled = 0 => CursorOf(syncState') = pull.cursor]_vars

\* what the code does: a pull that pulled a row stores the time of its end,
\* whatever it failed on or skipped
CursorIsEndOfPull ==
    [][PullWritesCursor /\ pull.pulled > 0
          => CursorOf(syncState') = toISOString(now)]_vars


----------------------------------------------------------------------------
(* Properties of the events marked syncing (SpecReload) *)

\* the event of this id has the status
HasStatus(id, status) ==
    \E k \in 1..Len(outbox) : outbox[k].id = id /\ outbox[k].status = status

\* the event is syncing and no run is at it
Orphaned(id) ==
    /\ HasStatus(id, "syncing")
    /\ \A p \in PushRuns : ~(push[p].pc = "send" /\ push[p].batch[push[p].i].id = id)

\* C36 as stated: every outbox event that is marked syncing eventually becomes
\* synced or failed, also when the push run that marked it is abandoned
\* between the mark and the remote reply (page closed, crash).
NoEventStaysSyncing ==
    \A id \in 1..ReloadMaxOutbox :
       HasStatus(id, "syncing") ~> (HasStatus(id, "synced") \/ HasStatus(id, "failed"))

\* the part of C36 that holds: an event marked syncing becomes synced or
\* failed unless its run is abandoned
SettledUnlessAbandoned ==
    \A id \in 1..ReloadMaxOutbox :
       HasStatus(id, "syncing")
          ~> (HasStatus(id, "synced") \/ HasStatus(id, "failed") \/ Orphaned(id))

\* what the code does with the event of an abandoned run: it stays syncing,
\* no run selects it
OrphanStaysSyncing ==
    [][\A id \in 1..ReloadMaxOutbox :
          Orphaned(id)
             => /\ Orphaned(id)'
                /\ \A p \in PushRuns :
                      \A j \in 1..Len(push'[p].batch) : push'[p].batch[j].id # id]_vars

\* ---- Properties of the queue the loop drains (SpecDrain) ----

\* the event waits for a push run
Waiting(event) == Selectable(event)

NoneWaiting == \A k \in 1..Len(outbox) : ~Waiting(outbox[k])
AllSynced == \A k \in 1..Len(outbox) : outbox[k].status = "synced"

\* C37: with an owner signed in, the network up, a remote that accepts the
\* writes, no further local mutation and a loop that keeps running, the
\* outbox drains: from some point on no event is pending or failed with a
\* retryCount below MAX_RETRY_COUNT, and every event is synced, also when
\* more events are queued than one batch holds.
OutboxDrains == (online /\ curUser # NULL) ~> [](NoneWaiting /\ AllSynced)

\* more events than one batch holds were queued, one of them failed once, and
\* all of them are synced
DrainedInBatches ==
    /\ online /\ curUser # NULL
    /\ Len(outbox) = DrainEvents
    /\ AllSynced
    /\ \E k \in 1..Len(outbox) : outbox[k].retryCount > 0
    /\ \A p \in PushRuns : push[p].pc = "idle"

\* one run takes at most a batch: the queue of DrainEvents events is not
\* drained by the first run
BatchIsCapped ==
    \A p \in PushRuns : Len(push[p].batch) <= SYNC_BATCH_SIZE

\* ---- Properties of the events two overlapping runs hold (SpecOverlap) ----

\* the events run p, still running, has marked syncing, and those for which
\* its remote call has returned
WrittenBy(p) ==
    {push[p].batch[j].id :
        j \in {k \in 1..Len(push[p].batch) :
                  k < push[p].i \/ (k = push[p].i /\ push[p].pc # "mark")}}
SentBy(p) ==
    {push[p].batch[j].id :
        j \in {k \in 1..Len(push[p].batch) :
                  k < push[p].i \/ (k = push[p].i /\ push[p].pc = "finish")}}

\* C38 as stated: when two push runs overlap in time, no outbox event is
\* sent to the remote by both runs, and no event has its status or
\* retryCount written by both.
NoDoublePush ==
    \A p, q \in PushRuns :
       p # q => SentBy(p) \cap SentBy(q) = {} /\ WrittenBy(p) \cap WrittenBy(q) = {}

\* what the code keeps: one run holds no event twice
RunHoldsEventOnce ==
    \A p \in PushRuns : Cardinality(BatchIds(push[p])) = Len(push[p].batch)

\* what the code does: a run that enters while the event is still pending or
\* failed takes it as well, whoever else holds it
OverlapTakesSame ==
    [][\A p \in PushRuns :
          push[p].pc = "idle" /\ push'[p].pc = "mark"
             => BatchIds(push'[p]) = SelectableIds(outbox)]_vars

\* ---- Properties of the names of tags and domains (SpecShared) ----

\* the live rows of a table that share their name, ignoring case, with
\* another live row (for tags: of the same domain)
Namesakes(entity) ==
    {i \in DOMAIN db[entity] :
        /\ Falsy(Get(db[entity][i], "deletedAt"))
        /\ Duplicated(db, entity, db[entity][i]) # {}}

\* C39 as stated: after any sequence of helper calls and pulls, no two
\* non-deleted tags of one domain have names that are equal ignoring case,
\* and no two non-deleted domains have names that are equal ignoring case.
NamesStayUnique == Namesakes("tags") = {} /\ Namesakes("domains") = {}

\* a row comes to share its name only by an update or by a pull, not by a create
NamesakeByRenameOrPull ==
    [][\A entity \in {"tags", "domains"} :
          Namesakes(entity)' # Namesakes(entity) /\ Namesakes(entity)' # {}
             => \/ pull.pc # pull'.pc
                \/ /\ Len(outbox') = Len(outbox) + 1
                   /\ outbox'[Len(outbox')].entity = entity
                   /\ outbox'[Len(outbox')].operation = "update"]_vars

\* ---- Properties of the tags the time slots refer to (SpecShared) ----

\* the non-deleted time slots that name a tag which is not in the local
\* table, or is soft-deleted there
Dangling ==
    {i \in DOMAIN db.timeslots :
        /\ Falsy(Get(db.timeslots[i], "deletedAt"))
        /\ \E k \in 1..Len(db.timeslots[i].tagIds) : ~LiveTag(db.timeslots[i].tagIds[k])}

\* C40 as stated: after any sequence of helper calls and pulls, every tag id
\* in the tagIds of a non-deleted time slot refers to a tag that exists
\* locally and is not soft-deleted; a tag removed by deleteTag or by the pull
\* of its tombstone leaves no non-deleted time slot that refers to it.
NoDanglingTagIds == Dangling = {}

\* the helpers leave no reference behind: a time slot comes to name a
\* missing tag only in a step of a pull
DanglingOnlyByPull ==
    [][Dangling' # {} /\ Dangling = {} => pull.pc = "apply" /\ pull'.pc # "apply"]_vars

====
